---- MODULE Spec2Model ----
(***************************************************************************)
(* State-machine model of the GitHub MCP server.                           *)
(*                                                                         *)
(* Three programs are modelled side by side:                               *)
(*   - the HTTP server of src/github-mcp-server.js (lines 1-542): the      *)
(*     JSON-RPC framing (POST /sse -> handleJsonRpcRequest), the direct    *)
(*     framing (POST /mcp/tools/call) and the event stream (GET /sse);     *)
(*   - the stdio server of src/unnamed/part_000 (class GitHubMCPServer);   *)
(*   - the extended HTTP server of src/github-mcp-server.js (lines         *)
(*     852-1906), whose JSON-RPC switch has nineteen more tools.           *)
(* Each program has its own response cache (cache[program]).               *)
(*                                                                         *)
(* Strings are sequences of tokens, so that template interpolation is      *)
(* concatenation and two different argument sets can build the same text.  *)
(* An async handler is two steps: the part before `await fetch` and the    *)
(* continuation that runs when the backend has answered.                   *)
(***************************************************************************)
EXTENDS Integers, Sequences, FiniteSets, TLC

\* ------------------------------------------------------------ constants
CACHE_DURATION == 60000

KeepAliveMs == 30000

\* JSON-RPC 2.0: the code of "Method not found"
MethodNotFound == -32601

\* ------------------------------------------------------------ bounds
MaxTime == 120000

MaxCalls == 3

MaxWideCalls == 2

MaxSessCalls == 1

MaxSessions == 2

MaxMixCalls == 2

MaxMixSessions == 1

MaxExtCalls == 2

MaxToolCalls == 4

MaxBothCalls == 2

\* ------------------------------------------------------------ JS values
Undefined == [t |-> "undefined"]

Null == [t |-> "null"]

Str(s) == [t |-> "string", v |-> s]

Num(s) == [t |-> "number", v |-> s]

Obj(f) == [t |-> "object", f |-> f]

Arr(v) == [t |-> "array", v |-> v]

Bool(b) == [t |-> "boolean", v |-> IF b THEN <<"true">> ELSE <<"false">>]

EmptyObj == Obj([k \in {} |-> Undefined])

IsUndef(x) == x.t = "undefined"

\* `${x}` in a template literal
ToStr(x) ==
  CASE x.t = "undefined" -> <<"undefined">>
    [] x.t = "null" -> <<"null">>
    [] x.t = "object" -> <<"[object Object]">>
    [] OTHER -> x.v

\* o.k for an object o (a missing property reads as undefined)
Prop(o, k) == IF k \in DOMAIN o.f THEN o.f[k] ELSE Undefined

\* a default parameter value (f(x = d)): used when the argument is undefined
Default(x, d) == IF IsUndef(x) THEN d ELSE x

\* the values that count as false in a condition: undefined, null, '', false, 0
Falsy(x) ==
  \/ x.t \in {"undefined", "null"}
  \/ x.t = "string" /\ x.v = <<>>
  \/ x.t = "boolean" /\ x.v = <<"false">>
  \/ x.t = "number" /\ x.v = <<"0">>

\* x || d
OrElse(x, d) == IF Falsy(x) THEN d ELSE x

\* encodeURIComponent, one token at a time: reserved characters are percent-encoded
EncodeToken(tok) ==
  CASE tok = "/" -> "%2F"
    [] tok = " " -> "%20"
    [] tok = "?" -> "%3F"
    [] tok = "&" -> "%26"
    [] tok = "=" -> "%3D"
    [] tok = "#" -> "%23"
    [] OTHER -> tok

encodeURIComponent(s) == [i \in 1..Len(s) |-> EncodeToken(s[i])]

\* ------------------------------------------------------------ JSON.stringify
RECURSIVE Escape(_)
Escape(s) ==
  IF s = <<>> THEN <<>>
  ELSE (IF Head(s) \in {"\"", "\\"} THEN <<"\\", Head(s)>> ELSE <<Head(s)>>)
       \o Escape(Tail(s))

JsonString(s) == <<"\"">> \o Escape(s) \o <<"\"">>

\* a property whose value is undefined is left out of the text
JsonValue(x) ==
  CASE x.t = "string" -> JsonString(x.v)
    [] x.t = "number" -> x.v
    [] x.t = "boolean" -> x.v
    [] x.t = "null" -> <<"null">>
    [] OTHER -> <<>>

RECURSIVE JsonFields(_, _, _)
JsonFields(names, o, first) ==
  IF names = <<>> THEN <<>>
  ELSE LET k == Head(names)
           x == Prop(o, k)
       IN IF IsUndef(x)
          THEN JsonFields(Tail(names), o, first)
          ELSE (IF first THEN <<>> ELSE <<",">>)
               \o JsonString(<<k>>) \o <<":">> \o JsonValue(x)
               \o JsonFields(Tail(names), o, FALSE)

\* JSON.stringify of an object whose properties were written in the order `names`
JsonObject(names, o) == <<"{">> \o JsonFields(names, o, TRUE) \o <<"}">>

\* ------------------------------------------------------------ GitHubAPIClient
baseURL == <<"https://api.github.com">>

\* options = {} (the default of makeRequest)
NoOptions == [text |-> <<"{", "}">>, method |-> "GET"]

\* options = { method, headers: {'Content-Type': 'application/json'}, body }
BodyOptions(method, body) ==
  [text |-> <<"{">> \o JsonString(<<"method">>) \o <<":">> \o JsonString(<<method>>)
            \o <<",">> \o JsonString(<<"headers">>) \o <<":", "{">>
            \o JsonString(<<"Content-Type">>) \o <<":">> \o JsonString(<<"application/json">>)
            \o <<"}", ",">> \o JsonString(<<"body">>) \o <<":">> \o JsonString(body)
            \o <<"}">>,
   method |-> method]

Request(endpoint, options) == [url |-> baseURL \o endpoint, options |-> options]

getRepository(owner, repo) ==
  Request(<<"/repos/">> \o ToStr(owner) \o <<"/">> \o ToStr(repo), NoOptions)

listRepositories(per_page, sort) ==
  Request(<<"/user/repos?per_page=">> \o ToStr(Default(per_page, Num(<<"30">>)))
          \o <<"&sort=">> \o ToStr(Default(sort, Str(<<"updated">>))), NoOptions)

listIssues(owner, repo, state) ==
  Request(<<"/repos/">> \o ToStr(owner) \o <<"/">> \o ToStr(repo)
          \o <<"/issues?state=">> \o ToStr(Default(state, Str(<<"open">>))), NoOptions)

createIssue(owner, repo, data) ==
  Request(<<"/repos/">> \o ToStr(owner) \o <<"/">> \o ToStr(repo) \o <<"/issues">>,
          BodyOptions("POST", JsonObject(<<"title", "body", "labels">>, data)))

getFileContent(owner, repo, path, ref) ==
  Request(<<"/repos/">> \o ToStr(owner) \o <<"/">> \o ToStr(repo)
          \o <<"/contents/">> \o ToStr(path)
          \o <<"?ref=">> \o ToStr(Default(ref, Str(<<"main">>))), NoOptions)

\* ------------------------------------------------------------ GitHubAPIClient, extended
\* options = { method, headers: {'Content-Type': 'application/json'} }, and the same with
\* body: undefined (JSON.stringify leaves the property out)
HeadersOptions(method) ==
  [text |-> <<"{">> \o JsonString(<<"method">>) \o <<":">> \o JsonString(<<method>>)
            \o <<",">> \o JsonString(<<"headers">>) \o <<":", "{">>
            \o JsonString(<<"Content-Type">>) \o <<":">> \o JsonString(<<"application/json">>)
            \o <<"}", "}">>,
   method |-> method]

\* JSON.stringify(data) as the body: undefined data gives no body
DataOptions(method, names, data) ==
  IF IsUndef(data) THEN HeadersOptions(method)
  ELSE BodyOptions(method, JsonObject(names, data))

Repo(owner, repo) == <<"/repos/">> \o ToStr(owner) \o <<"/">> \o ToStr(repo)

PerPage(per_page) == <<"per_page=">> \o ToStr(Default(per_page, Num(<<"30">>)))

listPullRequests(owner, repo, state, per_page) ==
  Request(Repo(owner, repo) \o <<"/pulls?state=">> \o ToStr(Default(state, Str(<<"open">>)))
          \o <<"&">> \o PerPage(per_page), NoOptions)

getPullRequest(owner, repo, pull_number) ==
  Request(Repo(owner, repo) \o <<"/pulls/">> \o ToStr(pull_number), NoOptions)

createPullRequest(owner, repo, data) ==
  Request(Repo(owner, repo) \o <<"/pulls">>,
          DataOptions("POST", <<"title", "head", "base", "body">>, data))

mergePullRequest(owner, repo, pull_number, data) ==
  Request(Repo(owner, repo) \o <<"/pulls/">> \o ToStr(pull_number) \o <<"/merge">>,
          DataOptions("PUT", <<"merge_method">>, Default(data, EmptyObj)))

listBranches(owner, repo, per_page) ==
  Request(Repo(owner, repo) \o <<"/branches?">> \o PerPage(per_page), NoOptions)

getBranch(owner, repo, branch) ==
  Request(Repo(owner, repo) \o <<"/branches/">> \o ToStr(branch), NoOptions)

createBranch(owner, repo, branch, sha) ==
  Request(Repo(owner, repo) \o <<"/git/refs">>,
          DataOptions("POST", <<"ref", "sha">>,
                      Obj([ref |-> Str(<<"refs/heads/">> \o ToStr(branch)), sha |-> sha])))

\* sha = null by default; the query names it only when it is truthy
listCommits(owner, repo, sha, per_page) ==
  Request(Repo(owner, repo) \o <<"/commits?">>
          \o (IF Falsy(Default(sha, Null)) THEN <<>> ELSE <<"sha=">> \o ToStr(sha) \o <<"&">>)
          \o PerPage(per_page), NoOptions)

getCommit(owner, repo, ref) ==
  Request(Repo(owner, repo) \o <<"/commits/">> \o ToStr(ref), NoOptions)

Search(what, query, per_page) ==
  Request(<<"/search/", what, "?q=">> \o encodeURIComponent(ToStr(query))
          \o <<"&">> \o PerPage(per_page), NoOptions)

searchRepositories(query, per_page) == Search("repositories", query, per_page)

searchCode(query, per_page) == Search("code", query, per_page)

searchIssues(query, per_page) == Search("issues", query, per_page)

listIssueComments(owner, repo, issue_number) ==
  Request(Repo(owner, repo) \o <<"/issues/">> \o ToStr(issue_number) \o <<"/comments">>,
          NoOptions)

createIssueComment(owner, repo, issue_number, body) ==
  Request(Repo(owner, repo) \o <<"/issues/">> \o ToStr(issue_number) \o <<"/comments">>,
          DataOptions("POST", <<"body">>, Obj([body |-> body])))

updateIssue(owner, repo, issue_number, data) ==
  Request(Repo(owner, repo) \o <<"/issues/">> \o ToStr(issue_number),
          DataOptions("PATCH", <<"state", "title", "body">>, data))

createOrUpdateFile(owner, repo, path, data) ==
  Request(Repo(owner, repo) \o <<"/contents/">> \o ToStr(path),
          DataOptions("PUT", <<"path", "message", "content", "branch">>, data))

createRepository(data) ==
  Request(<<"/user/repos">>, DataOptions("POST", <<"name", "description", "private">>, data))

forkRepository(owner, repo) ==
  Request(Repo(owner, repo) \o <<"/forks">>, HeadersOptions("POST"))

getUser(username) == Request(<<"/users/">> \o ToStr(username), NoOptions)

\* makeRequest: const cacheKey = `${url}_${JSON.stringify(options)}`
CacheKey(req) == req.url \o <<"_">> \o req.options.text

\* a lookup without the freshness test
CacheHitAlways(c, key, t) == key \in DOMAIN c

CacheHitReversed(c, key, t) == key \in DOMAIN c /\ t - c[key].timestamp > CACHE_DURATION

CacheHitInclusive(c, key, t) == key \in DOMAIN c /\ t - c[key].timestamp <= CACHE_DURATION

\* makeRequest: cached && Date.now() - cached.timestamp < CACHE_DURATION
CacheHit(c, key, t) == key \in DOMAIN c /\ t - c[key].timestamp < CACHE_DURATION

\* a write that keeps an entry that is still fresh
CacheSetKeepsFresh(c, key, data, t) ==
  [k \in DOMAIN c \cup {key} |->
     IF k = key /\ ~(key \in DOMAIN c /\ t - c[key].timestamp < CACHE_DURATION)
     THEN [data |-> data, timestamp |-> t] ELSE c[k]]

\* a write that keeps the entry that is there
CacheSetIfAbsent(c, key, data, t) ==
  [k \in DOMAIN c \cup {key} |->
     IF k \in DOMAIN c THEN c[k] ELSE [data |-> data, timestamp |-> t]]

\* a write that evicts the entries that have expired
CacheSetEvicting(c, key, data, t) ==
  [k \in {j \in DOMAIN c : t - c[j].timestamp < CACHE_DURATION} \cup {key} |->
     IF k = key THEN [data |-> data, timestamp |-> t] ELSE c[k]]

\* a write that clears every other entry
CacheSetClears(c, key, data, t) == [k \in {key} |-> [data |-> data, timestamp |-> t]]

\* makeRequest: cache.set(cacheKey, { data, timestamp: Date.now() })
CacheSet(c, key, data, t) ==
  [k \in DOMAIN c \cup {key} |->
     IF k = key THEN [data |-> data, timestamp |-> t] ELSE c[k]]

\* makeRequest: if (!response.ok) throw new Error(`GitHub API error: ...`)
ApiError(status) == <<"GitHub API error: ", status.code, " ", status.text>>

\* ------------------------------------------------------------ outcomes of a handler step
\* the handler goes on to fetch `req`
Fetch(req) == [kind |-> "fetch", req |-> req, text |-> <<>>]

\* the handler throws Error(msg)
Throw(msg) == [kind |-> "throw", req |-> Request(<<>>, NoOptions), text |-> msg]

\* the handler has built the text of its content block
Text(text) == [kind |-> "text", req |-> Request(<<>>, NoOptions), text |-> text]

\* TypeError of reading property k of undefined (args.k with no arguments object)
ReadOfUndefined(k) == <<"Cannot read properties of undefined (reading '", k, "')">>

\* TypeError of x.map(...) when x is not an array
NotAFunction(what) == <<what, ".map is not a function">>

ToolName(n) == Str(<<n>>)

\* ------------------------------------------------------------ content text
IsObject(x) == x.t = "object"

IsArray(x) == x.t = "array"

RECURSIVE Join(_, _)
Join(lines, sep) ==
  IF lines = <<>> THEN <<>>
  ELSE IF Len(lines) = 1 THEN Head(lines)
  ELSE Head(lines) \o sep \o Join(Tail(lines), sep)

\* Buffer.from(content, 'base64').toString('utf-8'), one token at a time
Base64Token(tok) ==
  CASE tok = "aGk=" -> <<"hi">>
    [] tok = "Ynll" -> <<"bye">>
    [] OTHER -> <<>>

RECURSIVE Base64Decode(_)
Base64Decode(s) ==
  IF s = <<>> THEN <<>> ELSE Base64Token(Head(s)) \o Base64Decode(Tail(s))

RepositoryText(repo) ==
  <<"Repository: ">> \o ToStr(Prop(repo, "full_name"))
  \o <<"\nDescription: ">> \o ToStr(OrElse(Prop(repo, "description"), Str(<<"No description">>)))
  \o <<"\nLanguage: ">> \o ToStr(OrElse(Prop(repo, "language"), Str(<<"Unknown">>)))
  \o <<"\nStars: ">> \o ToStr(Prop(repo, "stargazers_count"))
  \o <<"\nForks: ">> \o ToStr(Prop(repo, "forks_count"))
  \o <<"\nCreated: ">> \o ToStr(Prop(repo, "created_at"))
  \o <<"\nUpdated: ">> \o ToStr(Prop(repo, "updated_at"))
  \o <<"\nURL: ">> \o ToStr(Prop(repo, "html_url"))

RepositoryLine(repo) ==
  ToStr(Prop(repo, "full_name")) \o <<" - ">>
  \o ToStr(OrElse(Prop(repo, "description"), Str(<<"No description">>)))
  \o <<" (">> \o ToStr(OrElse(Prop(repo, "language"), Str(<<"Unknown">>))) \o <<")">>

RepositoriesText(repos) ==
  IF ~IsArray(repos) THEN Throw(NotAFunction("repos"))
  ELSE Text(<<"Found ", ToString(Len(repos.v)), " repositories:\n\n">>
            \o Join([i \in 1..Len(repos.v) |-> RepositoryLine(repos.v[i])], <<"\n">>))

IssueLine(issue) ==
  <<"#">> \o ToStr(Prop(issue, "number")) \o <<": ">> \o ToStr(Prop(issue, "title"))
  \o <<" (">> \o ToStr(Prop(issue, "state")) \o <<") - ">>
  \o ToStr(Prop(Prop(issue, "user"), "login"))

\* `state` is what the header prints: args.state, or the parameter with its default
IssuesText(owner, repo, state, issues) ==
  IF ~IsArray(issues) THEN Throw(NotAFunction("issues"))
  ELSE IF \E i \in 1..Len(issues.v) : ~IsObject(Prop(issues.v[i], "user"))
  THEN Throw(<<"Cannot read properties of null (reading '", "login", "')">>)
  ELSE LET issueList == Join([i \in 1..Len(issues.v) |-> IssueLine(issues.v[i])], <<"\n">>)
       IN Text(<<"Issues in ">> \o ToStr(owner) \o <<"/">> \o ToStr(repo)
               \o <<" (">> \o ToStr(state) \o <<"):\n\n">>
               \o (IF issueList = <<>> THEN <<"No issues found">> ELSE issueList))

NewIssueText(newIssue) ==
  Text(<<"Created issue #">> \o ToStr(Prop(newIssue, "number")) \o <<": ">>
       \o ToStr(Prop(newIssue, "title")) \o <<"\nURL: ">> \o ToStr(Prop(newIssue, "html_url")))

FileText(path, fileData) ==
  IF Prop(fileData, "type") # Str(<<"file">>) THEN Throw(<<"Path is not a file">>)
  ELSE IF Prop(fileData, "content").t # "string"
  THEN Throw(<<"The first argument must be of type string">>)
  ELSE Text(<<"File: ">> \o ToStr(path) \o <<" (">> \o ToStr(Prop(fileData, "size"))
            \o <<" bytes)\n\n">> \o Base64Decode(Prop(fileData, "content").v))

\* ------------------------------------------------------------ tool handlers
\* {title: args.title, body: args.body, labels: args.labels}
IssueData(args) ==
  Obj([k \in {"title", "body", "labels"} |-> Prop(args, k)])

\* handleJsonRpcRequest, tools/call: the switch up to the await of each case
RpcPlan(name, args) ==
  CASE name = ToolName("github_get_repository") ->
         IF IsUndef(args) THEN Throw(ReadOfUndefined("owner"))
         ELSE Fetch(getRepository(Prop(args, "owner"), Prop(args, "repo")))
    [] name = ToolName("github_list_repositories") ->
         IF IsUndef(args) THEN Throw(ReadOfUndefined("per_page"))
         ELSE Fetch(listRepositories(Prop(args, "per_page"), Prop(args, "sort")))
    [] name = ToolName("github_list_issues") ->
         IF IsUndef(args) THEN Throw(ReadOfUndefined("owner"))
         ELSE Fetch(listIssues(Prop(args, "owner"), Prop(args, "repo"), Prop(args, "state")))
    [] name = ToolName("github_create_issue") ->
         IF IsUndef(args) THEN Throw(ReadOfUndefined("owner"))
         ELSE Fetch(createIssue(Prop(args, "owner"), Prop(args, "repo"), IssueData(args)))
    [] name = ToolName("github_get_file_content") ->
         IF IsUndef(args) THEN Throw(ReadOfUndefined("owner"))
         ELSE Fetch(getFileContent(Prop(args, "owner"), Prop(args, "repo"),
                                   Prop(args, "path"), Prop(args, "ref")))
    [] OTHER -> Throw(<<"Unknown tool: ">> \o ToStr(name))

\* handleJsonRpcRequest, tools/call: each case after its await
RpcFormat(name, args, data) ==
  CASE name = ToolName("github_get_repository") -> Text(RepositoryText(data))
    [] name = ToolName("github_list_repositories") -> RepositoriesText(data)
    [] name = ToolName("github_list_issues") ->
         IssuesText(Prop(args, "owner"), Prop(args, "repo"), Prop(args, "state"), data)
    [] name = ToolName("github_create_issue") -> NewIssueText(data)
    [] OTHER -> FileText(Prop(args, "path"), data)

\* POST /mcp/tools/call: the switch up to the await of each case
DirectPlan(name, args) ==
  CASE name = ToolName("github_get_repository") ->
         IF IsUndef(args) THEN Throw(ReadOfUndefined("owner"))
         ELSE Fetch(getRepository(Prop(args, "owner"), Prop(args, "repo")))
    [] name = ToolName("github_list_repositories") ->
         IF IsUndef(args) THEN Throw(ReadOfUndefined("per_page"))
         ELSE Fetch(listRepositories(Prop(args, "per_page"), Prop(args, "sort")))
    [] name = ToolName("github_list_issues") ->
         IF IsUndef(args) THEN Throw(ReadOfUndefined("owner"))
         ELSE Fetch(listIssues(Prop(args, "owner"), Prop(args, "repo"), Prop(args, "state")))
    [] name = ToolName("github_create_issue") ->
         IF IsUndef(args) THEN Throw(ReadOfUndefined("owner"))
         ELSE Fetch(createIssue(Prop(args, "owner"), Prop(args, "repo"), IssueData(args)))
    [] name = ToolName("github_get_file_content") ->
         IF IsUndef(args) THEN Throw(ReadOfUndefined("owner"))
         ELSE Fetch(getFileContent(Prop(args, "owner"), Prop(args, "repo"),
                                   Prop(args, "path"), Prop(args, "ref")))
    [] OTHER -> Throw(<<"Unknown tool: ">> \o ToStr(name))

\* a direct handler that prints the state the listing defaulted to, as the stdio server does
DirectFormatDefaultsState(name, args, data) ==
  CASE name = ToolName("github_get_repository") -> Text(RepositoryText(data))
    [] name = ToolName("github_list_repositories") -> RepositoriesText(data)
    [] name = ToolName("github_list_issues") ->
         IssuesText(Prop(args, "owner"), Prop(args, "repo"),
                    Default(Prop(args, "state"), Str(<<"open">>)), data)
    [] name = ToolName("github_create_issue") -> NewIssueText(data)
    [] OTHER -> FileText(Prop(args, "path"), data)

\* POST /mcp/tools/call: each case after its await
DirectFormat(name, args, data) ==
  CASE name = ToolName("github_get_repository") -> Text(RepositoryText(data))
    [] name = ToolName("github_list_repositories") -> RepositoriesText(data)
    [] name = ToolName("github_list_issues") ->
         IssuesText(Prop(args, "owner"), Prop(args, "repo"), Prop(args, "state"), data)
    [] name = ToolName("github_create_issue") -> NewIssueText(data)
    [] OTHER -> FileText(Prop(args, "path"), data)

\* stdio tools/call handler with getRepository .. getFileContent of GitHubMCPServer:
\* listRepositories(args = {}) takes a missing arguments object as {}
StdioPlan(name, args) ==
  CASE name = ToolName("github_get_repository") ->
         IF IsUndef(args) THEN Throw(ReadOfUndefined("owner"))
         ELSE Fetch(getRepository(Prop(args, "owner"), Prop(args, "repo")))
    [] name = ToolName("github_list_repositories") ->
         LET a == Default(args, EmptyObj)
         IN Fetch(listRepositories(Prop(a, "per_page"), Prop(a, "sort")))
    [] name = ToolName("github_list_issues") ->
         IF IsUndef(args) THEN Throw(ReadOfUndefined("owner"))
         ELSE Fetch(listIssues(Prop(args, "owner"), Prop(args, "repo"), Prop(args, "state")))
    [] name = ToolName("github_create_issue") ->
         IF IsUndef(args)
         THEN Throw(<<"Cannot destructure property '", "owner", "' of 'args' as it is undefined.">>)
         ELSE Fetch(createIssue(Prop(args, "owner"), Prop(args, "repo"), IssueData(args)))
    [] name = ToolName("github_get_file_content") ->
         IF IsUndef(args) THEN Throw(ReadOfUndefined("owner"))
         ELSE Fetch(getFileContent(Prop(args, "owner"), Prop(args, "repo"),
                                   Prop(args, "path"), Prop(args, "ref")))
    [] OTHER -> Throw(<<"Unknown tool: ">> \o ToStr(name))

\* GitHubMCPServer.getRepository .. getFileContent after the await:
\* listIssues prints its `state` parameter, default applied
StdioFormat(name, args, data) ==
  CASE name = ToolName("github_get_repository") -> Text(RepositoryText(data))
    [] name = ToolName("github_list_repositories") -> RepositoriesText(data)
    [] name = ToolName("github_list_issues") ->
         IssuesText(Prop(args, "owner"), Prop(args, "repo"),
                    Default(Prop(args, "state"), Str(<<"open">>)), data)
    [] name = ToolName("github_create_issue") -> NewIssueText(data)
    [] OTHER -> FileText(Prop(args, "path"), data)

\* ------------------------------------------------------------ tool handlers, extended
\* the first five case labels of the extended switch: the code of the cases is that of
\* handleJsonRpcRequest above
BaseTools ==
  {ToolName("github_get_repository"), ToolName("github_list_repositories"),
   ToolName("github_list_issues"), ToolName("github_create_issue"),
   ToolName("github_get_file_content")}

\* { title: args.title, head: args.head, ... }: an object literal of properties of args
Pick(args, names) == Obj([k \in names |-> Prop(args, k)])

\* handleJsonRpcRequest of the extended server, tools/call: the switch up to the await.
\* first: the property of args each case reads first (a TypeError when args is undefined)
ExtRpcCase(name, args) ==
  LET o == Prop(args, "owner")
      r == Prop(args, "repo")
  IN CASE name = ToolName("github_list_pull_requests") ->
            listPullRequests(o, r, Prop(args, "state"), Prop(args, "per_page"))
       [] name = ToolName("github_get_pull_request") ->
            getPullRequest(o, r, Prop(args, "pull_number"))
       [] name = ToolName("github_create_pull_request") ->
            createPullRequest(o, r, Pick(args, {"title", "head", "base", "body"}))
       [] name = ToolName("github_merge_pull_request") ->
            mergePullRequest(o, r, Prop(args, "pull_number"),
                             Obj([merge_method |->
                                    OrElse(Prop(args, "merge_method"), Str(<<"merge">>))]))
       [] name = ToolName("github_list_branches") -> listBranches(o, r, Prop(args, "per_page"))
       [] name = ToolName("github_get_branch") -> getBranch(o, r, Prop(args, "branch"))
       [] name = ToolName("github_create_branch") ->
            createBranch(o, r, Prop(args, "branch"),
                         OrElse(Prop(args, "from_branch"), Str(<<"main">>)))
       [] name = ToolName("github_list_commits") ->
            listCommits(o, r, Prop(args, "sha"), Prop(args, "per_page"))
       [] name = ToolName("github_get_commit") -> getCommit(o, r, Prop(args, "ref"))
       [] name = ToolName("github_search_repositories") ->
            searchRepositories(Prop(args, "query"), Prop(args, "per_page"))
       [] name = ToolName("github_search_code") ->
            searchCode(Prop(args, "query"), Prop(args, "per_page"))
       [] name = ToolName("github_search_issues") ->
            searchIssues(Prop(args, "query"), Prop(args, "per_page"))
       [] name = ToolName("github_list_issue_comments") ->
            listIssueComments(o, r, Prop(args, "issue_number"))
       [] name = ToolName("github_create_issue_comment") ->
            createIssueComment(o, r, Prop(args, "issue_number"), Prop(args, "body"))
       [] name = ToolName("github_update_issue") ->
            updateIssue(o, r, Prop(args, "issue_number"),
                        Pick(args, {"state", "title", "body"}))
       [] name = ToolName("github_create_or_update_file") ->
            createOrUpdateFile(o, r, Pick(args, {"path", "message", "content", "branch"}),
                               Undefined)
       [] name = ToolName("github_create_repository") ->
            createRepository(Obj([name |-> Prop(args, "name"),
                                  description |-> Prop(args, "description"),
                                  private |-> OrElse(Prop(args, "private"), Bool(FALSE))]))
       [] name = ToolName("github_fork_repository") -> forkRepository(o, r)
       [] OTHER -> getUser(Prop(args, "username"))

\* the case labels the extended switch adds to the five
ExtraTools ==
  {ToolName(n) : n \in
     {"github_list_pull_requests", "github_get_pull_request", "github_create_pull_request",
      "github_merge_pull_request", "github_list_branches", "github_get_branch",
      "github_create_branch", "github_list_commits", "github_get_commit",
      "github_search_repositories", "github_search_code", "github_search_issues",
      "github_list_issue_comments", "github_create_issue_comment", "github_update_issue",
      "github_create_or_update_file", "github_create_repository", "github_fork_repository",
      "github_get_user"}}

\* the property of args a case reads first
FirstRead(name) ==
  CASE name \in {ToolName("github_search_repositories"), ToolName("github_search_code"),
                 ToolName("github_search_issues")} -> "query"
    [] name = ToolName("github_create_repository") -> "name"
    [] name = ToolName("github_get_user") -> "username"
    [] OTHER -> "owner"

ExtRpcPlan(name, args) ==
  IF name \in BaseTools THEN RpcPlan(name, args)
  ELSE IF name \in ExtraTools
  THEN IF IsUndef(args) THEN Throw(ReadOfUndefined(FirstRead(name)))
       ELSE Fetch(ExtRpcCase(name, args))
  ELSE Throw(<<"Unknown tool: ">> \o ToStr(name))

UserText(userDetails) ==
  <<"User: ">> \o ToStr(OrElse(Prop(userDetails, "name"), Prop(userDetails, "login")))
  \o <<"\nEmail: ">> \o ToStr(OrElse(Prop(userDetails, "email"), Str(<<"N/A">>)))
  \o <<"\nCompany: ">> \o ToStr(OrElse(Prop(userDetails, "company"), Str(<<"N/A">>)))
  \o <<"\nPublic Repos: ">> \o ToStr(Prop(userDetails, "public_repos"))
  \o <<"\nFollowers: ">> \o ToStr(Prop(userDetails, "followers"))

FileUpdateText(args, fileUpdate) ==
  (IF Prop(Prop(fileUpdate, "content"), "type") = Str(<<"file">>)
   THEN <<"Created">> ELSE <<"Updated">>)
  \o <<" file ">> \o ToStr(Prop(args, "path"))
  \o <<" in ">> \o ToStr(Prop(args, "owner")) \o <<"/">> \o ToStr(Prop(args, "repo"))
  \o <<"\nCommit: ">> \o ToStr(Prop(Prop(fileUpdate, "commit"), "sha"))

\* handleJsonRpcRequest of the extended server, tools/call: after the await, for the five
\* tools, github_create_or_update_file and github_get_user (the tools the scenarios call)
ExtRpcFormat(name, args, data) ==
  CASE name \in BaseTools -> RpcFormat(name, args, data)
    [] name = ToolName("github_create_or_update_file") -> Text(FileUpdateText(args, data))
    [] name = ToolName("github_get_user") -> Text(UserText(data))

\* ------------------------------------------------------------ response envelopes
NoId == 0

\* { jsonrpc: '2.0', id, result: { content: [{ type: 'text', text }] } }
RpcResult(id, text) ==
  [httpStatus |-> 200, envelope |-> "result", isError |-> FALSE, code |-> 0,
   text |-> text, id |-> id]

\* an error response whose id is null
RpcErrorNullId(id, code, message) ==
  [httpStatus |-> 200, envelope |-> "error", isError |-> FALSE, code |-> code,
   text |-> message, id |-> NoId]

\* { jsonrpc: '2.0', id, error: { code, message } }
RpcError(id, code, message) ==
  [httpStatus |-> 200, envelope |-> "error", isError |-> FALSE, code |-> code,
   text |-> message, id |-> id]

\* POST /sse catch: res.status(500).json({ jsonrpc, id: req.body.id, error: {code: -32603, ..} })
RpcInternalError(id, message) ==
  [httpStatus |-> 500, envelope |-> "error", isError |-> FALSE, code |-> -32603,
   text |-> message, id |-> id]

\* res.json(result)
DirectResult(text) ==
  [httpStatus |-> 200, envelope |-> "result", isError |-> FALSE, code |-> 0,
   text |-> text, id |-> NoId]

\* res.status(500).json({ content: [{ type: 'text', text: `Error: ${msg}` }], isError: true })
DirectError(message) ==
  [httpStatus |-> 500, envelope |-> "result", isError |-> TRUE, code |-> 0,
   text |-> <<"Error: ">> \o message, id |-> NoId]

\* the value the stdio handler returns (no HTTP status: 0)
StdioResult(text) ==
  [httpStatus |-> 0, envelope |-> "result", isError |-> FALSE, code |-> 0,
   text |-> text, id |-> NoId]

\* return { content: [{ type: 'text', text: `Error: ${msg}` }], isError: true }
StdioError(message) ==
  [httpStatus |-> 0, envelope |-> "result", isError |-> TRUE, code |-> 0,
   text |-> <<"Error: ">> \o message, id |-> NoId]

\* inputSchema.required of each descriptor
Required(n) ==
  CASE n = "github_get_repository" -> {"owner", "repo"}
    [] n = "github_list_repositories" -> {}
    [] n = "github_list_issues" -> {"owner", "repo"}
    [] n = "github_create_issue" -> {"owner", "repo", "title"}
    [] n = "github_get_file_content" -> {"owner", "repo", "path"}
    [] OTHER -> {}

\* inputSchema.properties of each descriptor: the declared type of each field
Properties(n) ==
  CASE n = "github_get_repository" -> [owner |-> "string", repo |-> "string"]
    [] n = "github_list_repositories" -> [per_page |-> "number", sort |-> "string"]
    [] n = "github_list_issues" -> [owner |-> "string", repo |-> "string", state |-> "string"]
    [] n = "github_create_issue" ->
         [owner |-> "string", repo |-> "string", title |-> "string", body |-> "string",
          labels |-> "array"]
    [] n = "github_get_file_content" ->
         [owner |-> "string", repo |-> "string", path |-> "string", ref |-> "string"]
    [] OTHER -> [k \in {} |-> ""]

\* the fields declared with an enum, and the values it allows
Enums(n) ==
  CASE n = "github_list_repositories" ->
         [sort |-> {<<"created">>, <<"updated">>, <<"pushed">>, <<"full_name">>}]
    [] n = "github_list_issues" -> [state |-> {<<"open">>, <<"closed">>, <<"all">>}]
    [] OTHER -> [k \in {} |-> {}]

\* the framings of the two HTTP servers: JSON-RPC (POST /sse), direct (POST /mcp/tools/call)
JsonRpcFramings == {"rpc", "xrpc"}

DirectFramings == {"direct", "xdirect"}

\* the try/catch around the switch of each framing: o is Text(..) or Throw(..)
Envelope(framing, id, o) ==
  CASE framing \in JsonRpcFramings ->
         IF o.kind = "text" THEN RpcResult(id, o.text) ELSE RpcError(id, -32000, o.text)
    [] framing \in DirectFramings ->
         IF o.kind = "text" THEN DirectResult(o.text) ELSE DirectError(o.text)
    [] OTHER ->
         IF o.kind = "text" THEN StdioResult(o.text) ELSE StdioError(o.text)

\* a switch whose unknown names fall into the first case
PlanFallsThrough(framing, name, args) ==
  LET n == IF name.t = "string" /\ name.v \in {<<"github_get_repository">>,
                <<"github_list_repositories">>, <<"github_list_issues">>,
                <<"github_create_issue">>, <<"github_get_file_content">>}
           THEN name ELSE ToolName("github_get_repository")
  IN CASE framing = "rpc" -> RpcPlan(n, args)
       [] framing = "direct" -> DirectPlan(n, args)
       [] OTHER -> StdioPlan(n, args)

\* the switch of the framing's handler
Plan(framing, name, args) ==
  CASE framing = "rpc" -> RpcPlan(name, args)
    [] framing = "direct" -> DirectPlan(name, args)
    [] framing = "xrpc" -> ExtRpcPlan(name, args)
    [] framing = "xdirect" -> DirectPlan(name, args)
    [] OTHER -> StdioPlan(name, args)

Format(framing, name, args, data) ==
  CASE framing = "rpc" -> RpcFormat(name, args, data)
    [] framing = "direct" -> DirectFormat(name, args, data)
    [] framing = "xrpc" -> ExtRpcFormat(name, args, data)
    [] framing = "xdirect" -> DirectFormat(name, args, data)
    [] OTHER -> StdioFormat(name, args, data)

\* the program a framing belongs to, hence the cache it uses
Program(framing) ==
  CASE framing = "stdio" -> "stdio"
    [] framing \in {"xrpc", "xdirect"} -> "ext"
    [] OTHER -> "http"

Programs == {"http", "stdio", "ext"}

\* ------------------------------------------------------------ state
VARIABLES
  now,       \* Date.now(), in ms
  cache,     \* program -> (cacheKey -> {data, timestamp}): the two `cache` Maps
  calls,     \* every request received so far, in order of arrival, with its progress
  writer,    \* program -> (cacheKey -> the call whose response the entry holds)
  sessions,  \* the `sessions` Map of the HTTP server: sessionId -> connection
  conns,     \* every GET /sse connection accepted so far, with the frames written to it
  timers     \* connection -> due time of its active keepAliveInterval

vars == <<now, cache, calls, writer, sessions, conns, timers>>

NoCache == [k \in {} |-> [data |-> Undefined, timestamp |-> 0]]

NoResponse ==
  [httpStatus |-> 0, envelope |-> "none", isError |-> FALSE, code |-> 0,
   text |-> <<>>, id |-> NoId]

Init ==
  /\ now = 0
  /\ cache = [p \in Programs |-> NoCache]
  /\ calls = <<>>
  /\ writer = [p \in Programs |-> [k \in {} |-> 0]]
  /\ sessions = [s \in {} |-> 0]
  /\ conns = <<>>
  /\ timers = [c \in {} |-> 0]

\* ------------------------------------------------------------ requests
\* initialize: static metadata
InitializeText == <<"protocolVersion=2024-11-05", "capabilities={tools:{}}",
                    "serverInfo=github-mcp-server/1.0.0">>

\* tools/list and GET /mcp/tools: the descriptors' names, in declaration order
ToolNames == <<"github_get_repository", "github_list_repositories", "github_list_issues",
               "github_create_issue", "github_get_file_content">>

\* a request that is answered in the step that receives it, the n-th request;
\* data: the cached payload it was answered from, if it was (a cache hit);
\* doneSeq: how many requests had arrived when it was answered
Answered(m, resp, plan, data, n) ==
  [framing |-> m.framing, method |-> m.method, hasParams |-> m.hasParams,
   name |-> m.name, args |-> m.args, id |-> m.id,
   pc |-> "done", planned |-> plan.kind, key |-> CacheKey(plan.req),
   hit |-> data # Undefined,
   servedBy |-> IF data # Undefined THEN writer[Program(m.framing)][CacheKey(plan.req)] ELSE 0,
   data |-> data, fetches |-> 0, reply |-> "none", stored |-> FALSE,
   issuedAt |-> now, doneAt |-> now, doneSeq |-> n, resp |-> resp]

\* a handler that joins the fetch of a call in flight for the same cacheKey, if there is one
SuspendedCoalesced(m, plan) ==
  [framing |-> m.framing, method |-> m.method, hasParams |-> m.hasParams,
   name |-> m.name, args |-> m.args, id |-> m.id,
   pc |-> "fetching", planned |-> plan.kind, key |-> CacheKey(plan.req),
   hit |-> FALSE, servedBy |-> 0, data |-> Undefined,
   fetches |-> IF \E j \in 1..Len(calls) :
                     calls[j].pc = "fetching" /\ calls[j].key = CacheKey(plan.req)
               THEN 0 ELSE 1,
   reply |-> "none", stored |-> FALSE,
   issuedAt |-> now, doneAt |-> 0, doneSeq |-> 0, resp |-> NoResponse]

\* a request whose handler is suspended at `await fetch(...)`
Suspended(m, plan) ==
  [framing |-> m.framing, method |-> m.method, hasParams |-> m.hasParams,
   name |-> m.name, args |-> m.args, id |-> m.id,
   pc |-> "fetching", planned |-> plan.kind, key |-> CacheKey(plan.req),
   hit |-> FALSE, servedBy |-> 0, data |-> Undefined, fetches |-> 1, reply |-> "none",
   stored |-> FALSE,
   issuedAt |-> now, doneAt |-> 0, doneSeq |-> 0, resp |-> NoResponse]

\* a tool call whose cache lookup is made for GET requests only
ToolCallCachesReads(m, n) ==
  LET plan == Plan(m.framing, m.name, m.args)
      c == cache[Program(m.framing)]
      key == CacheKey(plan.req)
  IN IF plan.kind = "throw"
     THEN Answered(m, Envelope(m.framing, m.id, plan), plan, Undefined, n)
     ELSE IF plan.req.options.method = "GET" /\ CacheHit(c, key, now)
     THEN Answered(m, Envelope(m.framing, m.id,
                               Format(m.framing, m.name, m.args, c[key].data)),
                   plan, c[key].data, n)
     ELSE Suspended(m, plan)

\* a tool call up to its first await: the switch, then makeRequest's cache lookup
ToolCall(m, n) ==
  LET plan == Plan(m.framing, m.name, m.args)
      c == cache[Program(m.framing)]
      key == CacheKey(plan.req)
  IN IF plan.kind = "throw"
     THEN Answered(m, Envelope(m.framing, m.id, plan), plan, Undefined, n)
     ELSE IF CacheHit(c, key, now)
     THEN Answered(m, Envelope(m.framing, m.id,
                               Format(m.framing, m.name, m.args, c[key].data)),
                   plan, c[key].data, n)
     ELSE Suspended(m, plan)

NoPlan == Text(<<>>)

\* a handler that takes any other method whose params name a tool for a tools/call
handleJsonRpcRequestLenient(m, n) ==
  CASE m.method = "initialize" ->
         Answered(m, RpcResult(m.id, InitializeText), NoPlan, Undefined, n)
    [] m.method = "tools/list" ->
         Answered(m, RpcResult(m.id, ToolNames), NoPlan, Undefined, n)
    [] m.method = "tools/call" /\ ~m.hasParams ->
         Answered(m, RpcInternalError(m.id,
                  <<"Cannot destructure property '", "name", "' of 'params' as it is undefined.">>),
                  NoPlan, Undefined, n)
    [] m.method = "tools/call" \/ ~IsUndef(m.name) -> ToolCall(m, n)
    [] OTHER -> Answered(m, RpcError(m.id, MethodNotFound, <<"Method not found">>),
                         NoPlan, Undefined, n)

\* a handler whose initialize result counts the requests received
handleJsonRpcRequestCounting(m, n) ==
  CASE m.method = "initialize" ->
         Answered(m, RpcResult(m.id, InitializeText \o <<"requests=", ToString(n)>>),
                  NoPlan, Undefined, n)
    [] m.method = "tools/list" ->
         Answered(m, RpcResult(m.id, ToolNames), NoPlan, Undefined, n)
    [] m.method = "tools/call" ->
         IF ~m.hasParams
         THEN Answered(m, RpcInternalError(m.id,
                  <<"Cannot destructure property '", "name", "' of 'params' as it is undefined.">>),
                  NoPlan, Undefined, n)
         ELSE ToolCall(m, n)
    [] OTHER -> Answered(m, RpcError(m.id, MethodNotFound, <<"Method not found">>),
                         NoPlan, Undefined, n)

\* a handler that destructures params inside its try block
handleJsonRpcRequestTriesParams(m, n) ==
  CASE m.method = "initialize" ->
         Answered(m, RpcResult(m.id, InitializeText), NoPlan, Undefined, n)
    [] m.method = "tools/list" ->
         Answered(m, RpcResult(m.id, ToolNames), NoPlan, Undefined, n)
    [] m.method = "tools/call" ->
         IF ~m.hasParams
         THEN Answered(m, RpcError(m.id, -32000,
                  <<"Cannot destructure property '", "name", "' of 'params' as it is undefined.">>),
                  NoPlan, Undefined, n)
         ELSE ToolCall(m, n)
    [] OTHER -> Answered(m, RpcError(m.id, MethodNotFound, <<"Method not found">>),
                         NoPlan, Undefined, n)

\* handleJsonRpcRequest inside POST /sse
handleJsonRpcRequest(m, n) ==
  CASE m.method = "initialize" ->
         Answered(m, RpcResult(m.id, InitializeText), NoPlan, Undefined, n)
    [] m.method = "tools/list" ->
         Answered(m, RpcResult(m.id, ToolNames), NoPlan, Undefined, n)
    [] m.method = "tools/call" ->
         IF ~m.hasParams
         THEN Answered(m, RpcInternalError(m.id,
                  <<"Cannot destructure property '", "name", "' of 'params' as it is undefined.">>),
                  NoPlan, Undefined, n)
         ELSE ToolCall(m, n)
    [] OTHER -> Answered(m, RpcError(m.id, MethodNotFound, <<"Method not found">>),
                         NoPlan, Undefined, n)

\* GET /mcp/tools: res.json({ tools: [...] })
GetMcpTools ==
  /\ calls' = Append(calls,
                Answered([framing |-> "direct", id |-> NoId, method |-> "tools/list",
                          hasParams |-> FALSE, name |-> Undefined, args |-> Undefined],
                         DirectResult(ToolNames), NoPlan, Undefined, Len(calls) + 1))
  /\ UNCHANGED <<now, cache, writer, sessions, conns, timers>>

\* tools/list of the extended server: the descriptors' names, in declaration order
ExtToolNames ==
  ToolNames \o
  <<"github_list_pull_requests", "github_get_pull_request", "github_create_pull_request",
    "github_merge_pull_request", "github_list_branches", "github_get_branch",
    "github_create_branch", "github_list_commits", "github_get_commit",
    "github_search_repositories", "github_search_code", "github_search_issues",
    "github_list_issue_comments", "github_create_issue_comment", "github_update_issue",
    "github_create_or_update_file", "github_create_repository", "github_fork_repository",
    "github_get_user">>

\* handleJsonRpcRequest of the extended server: as above, with its own tools/list
ExtHandleJsonRpcRequest(m, n) ==
  IF m.method = "tools/list"
  THEN Answered(m, RpcResult(m.id, ExtToolNames), NoPlan, Undefined, n)
  ELSE handleJsonRpcRequest(m, n)

\* POST /sse of the extended server
ExtPostSse(m) ==
  /\ m.framing = "xrpc"
  /\ calls' = Append(calls, ExtHandleJsonRpcRequest(m, Len(calls) + 1))
  /\ UNCHANGED <<now, cache, writer, sessions, conns, timers>>

\* POST /mcp/tools/call of the extended server
ExtPostToolsCall(m) ==
  /\ m.framing = "xdirect"
  /\ calls' = Append(calls, ToolCall(m, Len(calls) + 1))
  /\ UNCHANGED <<now, cache, writer, sessions, conns, timers>>

\* GET /mcp/tools of the extended server: res.json({ tools: [...] })
ExtGetMcpTools ==
  /\ calls' = Append(calls,
                Answered([framing |-> "xdirect", id |-> NoId, method |-> "tools/list",
                          hasParams |-> FALSE, name |-> Undefined, args |-> Undefined],
                         DirectResult(ToolNames), NoPlan, Undefined, Len(calls) + 1))
  /\ UNCHANGED <<now, cache, writer, sessions, conns, timers>>

\* a POST /sse that also pushes its response, as a message frame, to every open stream
PostSseToStreams(m) ==
  /\ m.framing = "rpc"
  /\ calls' = Append(calls, handleJsonRpcRequest(m, Len(calls) + 1))
  /\ conns' = [c \in 1..Len(conns) |->
                IF conns[c].state = "open"
                THEN [conns[c] EXCEPT !.frames = Append(@, "message")]
                ELSE conns[c]]
  /\ UNCHANGED <<now, cache, writer, sessions, timers>>

\* a POST /sse whose cache hits renew the entry's timestamp
PostSseSliding(m) ==
  /\ m.framing = "rpc"
  /\ calls' = Append(calls, handleJsonRpcRequest(m, Len(calls) + 1))
  /\ cache' = LET call == handleJsonRpcRequest(m, Len(calls) + 1)
              IN IF call.hit
                 THEN [cache EXCEPT !["http"][call.key].timestamp = now]
                 ELSE cache
  /\ UNCHANGED <<now, writer, sessions, conns, timers>>

\* POST /sse
PostSse(m) ==
  /\ m.framing = "rpc"
  /\ calls' = Append(calls, handleJsonRpcRequest(m, Len(calls) + 1))
  /\ UNCHANGED <<now, cache, writer, sessions, conns, timers>>

\* POST /mcp/tools/call
PostToolsCall(m) ==
  /\ m.framing = "direct"
  /\ calls' = Append(calls, ToolCall(m, Len(calls) + 1))
  /\ UNCHANGED <<now, cache, writer, sessions, conns, timers>>

\* the stdio server's tools/call request handler
StdioToolsCall(m) ==
  /\ m.framing = "stdio"
  /\ calls' = Append(calls, ToolCall(m, Len(calls) + 1))
  /\ UNCHANGED <<now, cache, writer, sessions, conns, timers>>

CacheAfterFetchAlways(c, key, r, t) == CacheSet(c, key, r.data, t)

\* a makeRequest that keeps its cacheKey in a field of the client, which the latest
\* request overwrites
CacheAfterFetchLatestKey(c, key, r, t) ==
  IF r.kind = "ok" THEN CacheSet(c, calls[Len(calls)].key, r.data, t) ELSE c

\* makeRequest after `await fetch`: what the cache is once the backend has answered r
CacheAfterFetch(c, key, r, t) ==
  IF r.kind = "ok" THEN CacheSet(c, key, r.data, t) ELSE c

\* a makeRequest that falls back on the entry it has, however old, when the backend fails
FetchOutcomeStaleFallback(call, r) ==
  CASE r.kind = "ok" -> Format(call.framing, call.name, call.args, r.data)
    [] r.kind # "ok" /\ call.key \in DOMAIN cache[Program(call.framing)] ->
         Format(call.framing, call.name, call.args,
                cache[Program(call.framing)][call.key].data)
    [] r.kind = "status" -> Throw(ApiError(r.status))
    [] OTHER -> Throw(<<"fetch failed">>)

\* a handler that answers with empty content when formatting the payload throws
FetchOutcomeSwallows(call, r) ==
  CASE r.kind = "ok" ->
         IF Format(call.framing, call.name, call.args, r.data).kind = "text"
         THEN Format(call.framing, call.name, call.args, r.data) ELSE Text(<<>>)
    [] r.kind = "status" -> Throw(ApiError(r.status))
    [] OTHER -> Throw(<<"fetch failed">>)

\* makeRequest after `await fetch`: the data it returns, or the error it throws
FetchOutcome(call, r) ==
  CASE r.kind = "ok" -> Format(call.framing, call.name, call.args, r.data)
    [] r.kind = "status" -> Throw(ApiError(r.status))
    [] OTHER -> Throw(<<"fetch failed">>)

\* a continuation that invokes the backend once more when the first invocation fails
FetchReturnsRetries(i, r) ==
  /\ i \in 1..Len(calls)
  /\ calls[i].pc = "fetching"
  /\ LET call == calls[i]
         p == Program(call.framing)
         again == r.kind # "ok" /\ call.fetches < 2
     IN /\ cache' = [cache EXCEPT ![p] = CacheAfterFetch(@, call.key, r, now)]
        /\ calls' = [calls EXCEPT ![i] =
                       IF again THEN [@ EXCEPT !.fetches = @ + 1]
                       ELSE [@ EXCEPT !.pc = "done",
                                      !.reply = r.kind,
                                      !.data = r.data,
                                      !.stored = (cache'[p] # cache[p]),
                                      !.doneAt = now,
                                      !.doneSeq = Len(calls),
                                      !.resp = Envelope(call.framing, call.id, FetchOutcome(call, r))]]
        /\ writer' = IF cache'[p] # cache[p]
                      THEN [writer EXCEPT ![p] =
                              [k \in DOMAIN @ \cup {call.key} |->
                                 IF k = call.key THEN i ELSE @[k]]]
                      ELSE writer
  /\ UNCHANGED <<now, sessions, conns, timers>>

\* a continuation without a catch: when the backend fails the handler ends and nothing
\* is sent
FetchReturnsDropsErrors(i, r) ==
  /\ i \in 1..Len(calls)
  /\ calls[i].pc = "fetching"
  /\ LET call == calls[i]
         p == Program(call.framing)
     IN /\ cache' = [cache EXCEPT ![p] = CacheAfterFetch(@, call.key, r, now)]
        /\ calls' = [calls EXCEPT ![i] =
                       [@ EXCEPT !.pc = "done",
                                 !.reply = r.kind,
                                 !.data = r.data,
                                 !.stored = (cache'[p] # cache[p]),
                                 !.doneAt = now,
                                 !.doneSeq = Len(calls),
                                 !.resp = IF r.kind = "ok"
                                          THEN Envelope(call.framing, call.id, FetchOutcome(call, r))
                                          ELSE NoResponse]]
        /\ writer' = IF cache'[p] # cache[p]
                      THEN [writer EXCEPT ![p] =
                              [k \in DOMAIN @ \cup {call.key} |->
                                 IF k = call.key THEN i ELSE @[k]]]
                      ELSE writer
  /\ UNCHANGED <<now, sessions, conns, timers>>

\* a continuation that formats the payload first and stores it only if that succeeded
FetchReturnsFormatFirst(i, r) ==
  /\ i \in 1..Len(calls)
  /\ calls[i].pc = "fetching"
  /\ LET call == calls[i]
         p == Program(call.framing)
     IN /\ cache' = [cache EXCEPT ![p] =
                       IF FetchOutcome(call, r).kind = "text"
                       THEN CacheAfterFetch(@, call.key, r, now) ELSE @]
        /\ calls' = [calls EXCEPT ![i] =
                       [@ EXCEPT !.pc = "done",
                                 !.reply = r.kind,
                                 !.data = r.data,
                                 !.stored = (cache'[p] # cache[p]),
                                 !.doneAt = now,
                                 !.doneSeq = Len(calls),
                                 !.resp = Envelope(call.framing, call.id, FetchOutcome(call, r))]]
        /\ writer' = IF cache'[p] # cache[p]
                      THEN [writer EXCEPT ![p] =
                              [k \in DOMAIN @ \cup {call.key} |->
                                 IF k = call.key THEN i ELSE @[k]]]
                      ELSE writer
  /\ UNCHANGED <<now, sessions, conns, timers>>

\* the continuation of call i when the backend answers r
FetchReturns(i, r) ==
  /\ i \in 1..Len(calls)
  /\ calls[i].pc = "fetching"
  /\ LET call == calls[i]
         p == Program(call.framing)
     IN /\ cache' = [cache EXCEPT ![p] = CacheAfterFetch(@, call.key, r, now)]
        /\ calls' = [calls EXCEPT ![i] =
                       [@ EXCEPT !.pc = "done",
                                 !.reply = r.kind,
                                 !.data = r.data,
                                 !.stored = (cache'[p] # cache[p]),
                                 !.doneAt = now,
                                 !.doneSeq = Len(calls),
                                 !.resp = Envelope(call.framing, call.id, FetchOutcome(call, r))]]
        /\ writer' = IF cache'[p] # cache[p]
                      THEN [writer EXCEPT ![p] =
                              [k \in DOMAIN @ \cup {call.key} |->
                                 IF k = call.key THEN i ELSE @[k]]]
                      ELSE writer
  /\ UNCHANGED <<now, sessions, conns, timers>>

\* ------------------------------------------------------------ the event stream
\* the identifiers uuidv4() can return: any not returned before
UuidPool == 1..(MaxSessions + 1)

\* a generator that can return an identifier again
uuidv4Repeats(used) == UuidPool

uuidv4(used) == UuidPool \ used

\* sessions.set(sessionId, { res, id: sessionId })
SessionsSet(s, sid, c) == [k \in DOMAIN s \cup {sid} |-> IF k = sid THEN c ELSE s[k]]

SessionsDeleteNothing(s, sid) == s

\* a close handler that empties the session map
SessionsDeleteAll(s, sid) == [k \in {} |-> 0]

\* sessions.delete(sessionId)
SessionsDelete(s, sid) == [k \in DOMAIN s \ {sid} |-> s[k]]

\* setInterval(..., 30000): armed, first due one interval from now
SetInterval(t, c, at) == [k \in DOMAIN t \cup {c} |-> IF k = c THEN at + KeepAliveMs ELSE t[k]]

\* a timer that fires once, as setTimeout does
RearmNever(t, c) == [k \in DOMAIN t \ {c} |-> t[k]]

\* an interval timer that has fired is due again one interval later
Rearm(t, c) == [t EXCEPT ![c] = @ + KeepAliveMs]

ClearIntervalNothing(t, c) == t

\* a keepAliveInterval shared by the connections: close clears the timer armed last
ClearIntervalLatest(t, c) ==
  [k \in DOMAIN t \ {CHOOSE m \in DOMAIN t : \A j \in DOMAIN t : j <= m} |-> t[k]]

\* clearInterval(keepAliveInterval)
ClearInterval(t, c) == [k \in DOMAIN t \ {c} |-> t[k]]

\* GET /sse: a new session, the endpoint frame, the keep-alive timer
GetSse(sid) ==
  /\ sid \in uuidv4({conns[c].sid : c \in 1..Len(conns)})
  /\ LET c == Len(conns) + 1
     IN /\ conns' = Append(conns, [sid |-> sid, state |-> "open", openedAt |-> now,
                                   closedAt |-> 0, frames |-> <<"endpoint">>])
        /\ sessions' = SessionsSet(sessions, sid, c)
        /\ timers' = SetInterval(timers, c, now)
  /\ UNCHANGED <<now, cache, calls, writer>>

\* a callback that writes the endpoint frame again on every tick
KeepAliveResendsEndpoint(c) ==
  /\ c \in DOMAIN timers
  /\ timers[c] <= now
  /\ conns' = [conns EXCEPT ![c].frames = Append(@, "endpoint")]
  /\ timers' = Rearm(timers, c)
  /\ UNCHANGED <<now, cache, calls, writer, sessions>>

\* the keepAliveInterval callback of connection c: res.write(':ping\n\n')
KeepAlive(c) ==
  /\ c \in DOMAIN timers
  /\ timers[c] <= now
  /\ conns' = [conns EXCEPT ![c].frames = Append(@, "ping")]
  /\ timers' = Rearm(timers, c)
  /\ UNCHANGED <<now, cache, calls, writer, sessions>>

\* req.on('close') of connection c
Close(c) ==
  /\ c \in 1..Len(conns)
  /\ conns[c].state = "open"
  /\ conns' = [conns EXCEPT ![c].state = "closed", ![c].closedAt = now]
  /\ timers' = ClearInterval(timers, c)
  /\ sessions' = SessionsDelete(sessions, conns[c].sid)
  /\ UNCHANGED <<now, cache, calls, writer>>

\* ------------------------------------------------------------ the clock
\* the clock steps of the scenarios: one ms less than the TTL, and the TTL
Deltas == {CACHE_DURATION - 1, CACHE_DURATION}

\* time passes by d ms; a due timer fires before time passes it
Advance(d) ==
  /\ d > 0
  /\ now + d <= MaxTime
  /\ \A c \in DOMAIN timers : now + d <= timers[c]
  /\ now' = now + d
  /\ UNCHANGED <<cache, calls, writer, sessions, conns, timers>>

\* the steps time can take: a delta, or up to the next timer
Steps == Deltas \cup {timers[c] - now : c \in DOMAIN timers}

\* ------------------------------------------------------------ the environment
Arg(s) == Str(s)

Args(f) == Obj(f)

RepoAX == Args([owner |-> Arg(<<"a">>), repo |-> Arg(<<"x">>)])

RepoBX == Args([owner |-> Arg(<<"b">>), repo |-> Arg(<<"x">>)])

\* owner "a/b", repo "c"
RepoAB_C == Args([owner |-> Arg(<<"a", "/", "b">>), repo |-> Arg(<<"c">>)])

\* owner "a", repo "b/c"
RepoA_BC == Args([owner |-> Arg(<<"a">>), repo |-> Arg(<<"b", "/", "c">>)])

\* the required field owner is missing
RepoOnlyX == Args([repo |-> Arg(<<"x">>)])

\* owner is a number
RepoNumX == Args([owner |-> Num(<<"42">>), repo |-> Arg(<<"x">>)])

\* per_page is a string
PerPageText == Args([per_page |-> Arg(<<"abc">>)])

\* sort is outside its enum
SortBogus == Args([sort |-> Arg(<<"bogus">>)])

Message(framing, id, method, name, args) ==
  [framing |-> framing, id |-> IF framing \in JsonRpcFramings THEN id ELSE NoId,
   method |-> method,
   hasParams |-> TRUE, name |-> name, args |-> args]

CallMessage(framing, id, name, args) == Message(framing, id, "tools/call", ToolName(name), args)

\* a tools/call message without params
NoParams(id) == [Message("rpc", id, "tools/call", Undefined, Undefined) EXCEPT !.hasParams = FALSE]

\* the requests of the cache scenarios
Messages ==
  { CallMessage("rpc", 1, "github_get_repository", RepoAX),
    CallMessage("rpc", 2, "github_get_repository", RepoBX) }

\* the requests of the dispatch scenarios: every framing, known and unknown names,
\* arguments present, partly missing and absent; and arguments of a wrong type or outside
\* an enum
WideMessages ==
  { CallMessage(f, 1, n, a) :
      f \in {"rpc", "direct", "stdio"},
      n \in {"github_get_repository", "github_delete_repository"},
      a \in {Undefined, RepoAX, RepoOnlyX, RepoAB_C, RepoA_BC} }
  \cup { CallMessage("rpc", 1, "github_get_repository", RepoNumX) }
  \cup { CallMessage("rpc", 1, "github_list_repositories", a) : a \in {PerPageText, SortBogus} }
  \cup { CallMessage("stdio", 1, "github_list_repositories", PerPageText) }
  \cup { NoParams(1) }

\* the requests sent while event streams are open
SessMessages ==
  { Message("rpc", 1, "initialize", Undefined, Undefined),
    Message("rpc", 1, "tools/list", Undefined, Undefined),
    Message("rpc", 1, "resources/list", Undefined, Undefined),
    CallMessage("rpc", 1, "github_get_repository", RepoAX),
    CallMessage("direct", 1, "github_get_repository", RepoAX) }

\* the requests of the protocol scenarios: every method of the JSON-RPC framing, an unknown
\* method without and with the params of a tool call, tools/call without params, known and
\* unknown tools, under two correlation ids; and a direct call
MixMessages ==
  { Message("rpc", id, method, Undefined, Undefined) :
      id \in {1, 2}, method \in {"initialize", "tools/list", "resources/list"} }
  \cup { Message("rpc", id, "tools/run", ToolName("github_get_repository"), RepoAX) :
           id \in {1, 2} }
  \cup { NoParams(id) : id \in {1, 2} }
  \cup { CallMessage("rpc", id, n, RepoAX) :
           id \in {1, 2}, n \in {"github_get_repository", "github_delete_repository"} }
  \cup { CallMessage("direct", 1, "github_get_repository", RepoAX) }

UserA == Args([username |-> Arg(<<"a">>)])

\* the requests of the tool scenarios: a listing, a mutation of what it lists, and a read
\* whose payload the handler inspects
ToolMessages ==
  { CallMessage("rpc", 1, "github_list_issues", RepoAX),
    CallMessage("rpc", 1, "github_create_issue",
                Args([owner |-> Arg(<<"a">>), repo |-> Arg(<<"x">>), title |-> Arg(<<"t">>)])),
    CallMessage("rpc", 1, "github_get_file_content",
                Args([owner |-> Arg(<<"a">>), repo |-> Arg(<<"x">>), path |-> Arg(<<"p">>)])) }

\* the five tools, each with one set of arguments, through both framings of the HTTP server
BothMessages ==
  { Message(f, 1, "tools/call", m.name, m.args) :
      f \in {"rpc", "direct"},
      m \in ToolMessages \cup { CallMessage("rpc", 1, "github_get_repository", RepoAX),
                                CallMessage("rpc", 1, "github_list_repositories", EmptyObj) } }

\* an issue as the backend returns it
Issue(number) ==
  Obj([number |-> Num(<<number>>), title |-> Str(<<"t">>), state |-> Str(<<"open">>),
       user |-> Obj([login |-> Str(<<"u">>)]),
       html_url |-> Str(<<"https://github.com/a/x/issues/", number>>)])

\* the contents of a path: a file, or an entry of another type
Contents(type) ==
  Obj([type |-> Str(<<type>>), size |-> Num(<<"2">>), content |-> Str(<<"aGk=">>)])

\* arguments of github_create_or_update_file on the repository a/x
FileArgs(path, message) ==
  Args([owner |-> Arg(<<"a">>), repo |-> Arg(<<"x">>), path |-> Arg(<<path>>),
        message |-> Arg(<<message>>), content |-> Arg(<<"aGk=">>)])

\* the requests to the extended server: a tool of the five, a tool of the nineteen and an
\* unknown one, under both framings; and tools/list
ExtMessages ==
  { CallMessage(f, 1, n, a) :
      f \in {"xrpc", "xdirect"},
      n \in {"github_get_repository", "github_get_user", "github_delete_repository"},
      a \in {RepoAX, UserA} }
  \cup { Message("xrpc", 1, "tools/list", Undefined, Undefined) }
  \cup { CallMessage("xrpc", 1, "github_create_or_update_file", FileArgs(p, msg)) :
           p \in {"p", "q"}, msg \in {"m", "n"} }

\* the answer to a PUT on the contents endpoint
FileUpdate(sha) ==
  Obj([content |-> Obj([type |-> Str(<<"file">>)]), commit |-> Obj([sha |-> Str(<<sha>>)])])

User(login) ==
  Obj([login |-> Str(login), name |-> Null, email |-> Null, company |-> Str(<<"c">>),
       public_repos |-> Num(<<"3">>), followers |-> Num(<<"0">>)])

Repository(full_name, stars) ==
  Obj([full_name |-> Str(full_name), description |-> Null, language |-> Str(<<"Go">>),
       stargazers_count |-> Num(<<stars>>), forks_count |-> Num(<<"0">>),
       created_at |-> Str(<<"2020-01-01T00:00:00Z">>),
       updated_at |-> Str(<<"2021-01-01T00:00:00Z">>),
       html_url |-> Str(<<"https://github.com/">> \o full_name)])

\* the bodies the backend can answer a call with
Payloads(call) == { Repository(<<"r">>, "1"), Repository(<<"r">>, "2") }

Ok(d) == [kind |-> "ok", data |-> d, status |-> [code |-> "200", text |-> "OK"]]

NotOk(code, text) == [kind |-> "status", data |-> Undefined, status |-> [code |-> code, text |-> text]]

Fault == [kind |-> "fault", data |-> Undefined, status |-> [code |-> "0", text |-> ""]]

\* what the backend answers in the cache scenarios: one of two bodies, or a non-2xx status
Replies(call) == {Ok(d) : d \in Payloads(call)} \cup {NotOk("404", "Not Found")}

\* what the backend answers in the dispatch scenarios: a body, a non-2xx status, a
\* transport fault
WideReplies(call) ==
  { Ok(IF call.name = ToolName("github_list_repositories")
       THEN Arr(<<Repository(<<"r">>, "1")>>)
       ELSE Repository(<<"r">>, "1")),
    NotOk("404", "Not Found"), Fault }

\* what the backend answers the extended server: a body of the tool's kind, or a status
ExtReplies(call) ==
  { Ok(CASE call.name = ToolName("github_get_user") -> User(<<"a">>)
         [] call.name = ToolName("github_create_or_update_file") -> FileUpdate("c1")
         [] OTHER -> Repository(<<"r">>, "1")),
    NotOk("404", "Not Found") }

\* what the backend answers in the tool scenarios: the listing before and after an issue
\* is created, the issue created, a file or a symlink; or a non-2xx status
ToolReplies(call) ==
  (CASE call.name = ToolName("github_list_issues") ->
          {Ok(Arr(<<>>)), Ok(Arr(<<Issue("1")>>))}
     [] call.name = ToolName("github_create_issue") -> {Ok(Issue("1")), Ok(Issue("2"))}
     [] OTHER -> {Ok(Contents("file")), Ok(Contents("symlink"))})
  \cup {NotOk("404", "Not Found")}

\* ------------------------------------------------------------ specifications
Answer == \E i \in 1..Len(calls) : \E r \in Replies(calls[i]) : FetchReturns(i, r)

AnswerWide == \E i \in 1..Len(calls) : \E r \in WideReplies(calls[i]) : FetchReturns(i, r)

Pass == \E d \in Steps : Advance(d)

Open == \E sid \in UuidPool : Len(conns) < MaxSessions /\ GetSse(sid)

Ping == \E c \in DOMAIN timers : KeepAlive(c)

Hangup == \E c \in 1..Len(conns) : Close(c)

OpenMix == \E sid \in UuidPool : Len(conns) < MaxMixSessions /\ GetSse(sid)

\* the response cache over time
Next ==
  \/ \E m \in Messages : Len(calls) < MaxCalls /\ PostSse(m)
  \/ Answer
  \/ Pass

Spec == Init /\ [][Next]_vars

\* dispatch in the three framings
NextWide ==
  \/ \E m \in WideMessages : Len(calls) < MaxWideCalls /\ PostSse(m)
  \/ \E m \in WideMessages : Len(calls) < MaxWideCalls /\ PostToolsCall(m)
  \/ \E m \in WideMessages : Len(calls) < MaxWideCalls /\ StdioToolsCall(m)
  \/ AnswerWide

SpecWide == Init /\ [][NextWide]_vars

\* event streams, with requests arriving meanwhile
NextSess ==
  \/ Open
  \/ Ping
  \/ Hangup
  \/ Pass
  \/ \E m \in SessMessages : Len(calls) < MaxSessCalls /\ PostSse(m)
  \/ \E m \in SessMessages : Len(calls) < MaxSessCalls /\ PostToolsCall(m)
  \/ Answer

SpecSess == Init /\ [][NextSess]_vars

\* the protocol: every kind of request, with event streams opening and closing
NextMix ==
  \/ OpenMix
  \/ Hangup
  \/ \E m \in MixMessages : Len(calls) < MaxMixCalls /\ PostSse(m)
  \/ \E m \in MixMessages : Len(calls) < MaxMixCalls /\ PostToolsCall(m)
  \/ Len(calls) < MaxMixCalls /\ GetMcpTools
  \/ AnswerWide

SpecMix == Init /\ [][NextMix]_vars

\* the protocol, when every backend invocation eventually returns or fails
SpecLive ==
  /\ Init /\ [][NextMix]_vars
  /\ \A i \in 1..MaxMixCalls :
       WF_vars(i \in 1..Len(calls) /\ \E r \in WideReplies(calls[i]) : FetchReturns(i, r))

\* what the backend answers to the five tools
BothReplies(call) ==
  IF call.name \in {ToolName("github_get_repository"), ToolName("github_list_repositories")}
  THEN WideReplies(call) ELSE ToolReplies(call)

AnswerBoth == \E i \in 1..Len(calls) : \E r \in BothReplies(calls[i]) : FetchReturns(i, r)

\* the five tools through POST /sse and POST /mcp/tools/call
NextBoth ==
  \/ \E m \in BothMessages : Len(calls) < MaxBothCalls /\ PostSse(m)
  \/ \E m \in BothMessages : Len(calls) < MaxBothCalls /\ PostToolsCall(m)
  \/ AnswerBoth

SpecBoth == Init /\ [][NextBoth]_vars

AnswerTools == \E i \in 1..Len(calls) : \E r \in ToolReplies(calls[i]) : FetchReturns(i, r)

\* reads and a mutation through the JSON-RPC framing
NextTools ==
  \/ \E m \in ToolMessages : Len(calls) < MaxToolCalls /\ PostSse(m)
  \/ AnswerTools

SpecTools == Init /\ [][NextTools]_vars

AnswerExt == \E i \in 1..Len(calls) : \E r \in ExtReplies(calls[i]) : FetchReturns(i, r)

\* the extended server: its two framings
NextExt ==
  \/ \E m \in ExtMessages : Len(calls) < MaxExtCalls /\ ExtPostSse(m)
  \/ \E m \in ExtMessages : Len(calls) < MaxExtCalls /\ ExtPostToolsCall(m)
  \/ Len(calls) < MaxExtCalls /\ ExtGetMcpTools
  \/ AnswerExt

SpecExt == Init /\ [][NextExt]_vars

\* ------------------------------------------------------------ vocabulary of the properties
Calls == 1..Len(calls)

Done(i) == calls[i].pc = "done"

\* a tools/call request that reached the switch on the tool name
IsToolCall(call) == call.method = "tools/call" /\ call.hasParams

\* the response reports an error, in either framing's way
IsErrorOutcome(resp) == resp.envelope = "error" \/ resp.isError

Succeeded(i) == Done(i) /\ calls[i].resp.envelope = "result" /\ ~calls[i].resp.isError

SameRequest(i, j) ==
  /\ calls[i].framing = calls[j].framing
  /\ calls[i].method = calls[j].method
  /\ calls[i].name = calls[j].name
  /\ calls[i].args = calls[j].args

\* call b arrived after call a had been answered
IssuedAfter(b, a) == Done(a) /\ calls[a].doneSeq < b

\* b repeats a, which fetched and succeeded, less than the TTL after a's response was stored
RepeatsWithinTtl(a, b) ==
  /\ a \in Calls /\ b \in Calls
  /\ IsToolCall(calls[a])
  /\ Succeeded(a) /\ calls[a].fetches = 1
  /\ SameRequest(a, b)
  /\ IssuedAfter(b, a)
  /\ calls[b].issuedAt - calls[a].doneAt < CACHE_DURATION

\* the request received in this step, if one was
Arrived == Len(calls') = Len(calls) + 1

\* ------------------------------------------------------------ C1
\* C1 (as claimed): a call that repeats a successful call after it returned and less than
\* 60 s after its response was stored returns the identical result without a backend call.
C1_Original ==
  \A a \in Calls : \A b \in Calls :
    RepeatsWithinTtl(a, b) /\ Done(b) =>
      /\ calls[b].resp.text = calls[a].resp.text
      /\ calls[b].fetches = 0

\* C1 (amended): such a repeat is a cache hit: the backend is not invoked for it (one
\* invocation for the two calls) and it is answered from the payload the entry holds then,
\* which is the first call's, with the identical result, unless a concurrent call with the
\* same fingerprint stored its response after the first call did.
C1_CacheHit ==
  \A a \in Calls : \A b \in Calls :
    RepeatsWithinTtl(a, b) =>
      /\ Done(b) /\ calls[b].hit
      /\ calls[a].fetches + calls[b].fetches = 1
      /\ calls[b].servedBy \in Calls
      /\ calls[b].data = calls[calls[b].servedBy].data
      /\ (calls[b].servedBy = a =>
            /\ calls[b].resp.text = calls[a].resp.text
            /\ calls[b].resp.envelope = calls[a].resp.envelope
            /\ calls[b].resp.isError = calls[a].resp.isError)

\* a repeat 59999 ms after the first response was stored
C1_Witness ==
  \E a \in Calls : \E b \in Calls :
    /\ RepeatsWithinTtl(a, b)
    /\ calls[b].issuedAt - calls[a].doneAt = CACHE_DURATION - 1
    /\ calls[b].servedBy = a

\* ------------------------------------------------------------ C2
\* the entry a request finds for its fingerprint is fresh / stale
EntryAge(call) == now - cache[Program(call.framing)][call.key].timestamp

FindsEntry(call) ==
  /\ IsToolCall(call) /\ call.planned = "fetch"
  /\ call.key \in DOMAIN cache[Program(call.framing)]

\* C2: a call that arrives when the entry for its fingerprint is 60 s old or older invokes
\* the backend, and the old entry is still in the cache.
C2_StaleRefetches ==
  [][Arrived =>
       LET call == calls'[Len(calls')]
       IN FindsEntry(call) /\ EntryAge(call) >= CACHE_DURATION =>
            /\ call.pc = "fetching" /\ call.fetches = 1 /\ ~call.hit
            /\ cache' = cache]_vars

\* a call suspended at its fetch although an entry of age exactly the TTL was there
C2_Witness ==
  \E b \in Calls :
    /\ calls[b].pc = "fetching"
    /\ calls[b].key \in DOMAIN cache["http"]
    /\ calls[b].issuedAt - cache["http"][calls[b].key].timestamp = CACHE_DURATION

\* ------------------------------------------------------------ C3
\* the names of the registry
Registry == {ToolName(ToolNames[i]) : i \in 1..Len(ToolNames)}

\* the error outcome of an unknown tool: "Unknown tool: <name>" as the error message
\* (JSON-RPC) or as the text of an error content block (direct call, stdio)
IsUnknownTool(call) ==
  /\ IsErrorOutcome(call.resp)
  /\ call.resp.text = (IF call.framing \in JsonRpcFramings THEN <<>> ELSE <<"Error: ">>)
                      \o <<"Unknown tool: ">> \o ToStr(call.name)

\* C3: a call of a name that is not in the registry is answered at once with the
\* UnknownTool error, without a backend invocation and with the cache unchanged, in every
\* framing and whatever its arguments.
C3_UnknownTool ==
  [][Arrived =>
       LET call == calls'[Len(calls')]
       IN IsToolCall(call) /\ call.name \notin Registry =>
            /\ call.pc = "done" /\ call.fetches = 0 /\ ~call.hit
            /\ IsUnknownTool(call)
            /\ cache' = cache]_vars

\* an unknown name without arguments, on the stdio handler, with an entry in its cache
C3_Witness ==
  \E i \in Calls :
    /\ IsToolCall(calls[i]) /\ calls[i].name \notin Registry
    /\ calls[i].framing = "stdio" /\ IsUndef(calls[i].args)
    /\ Done(i)
    /\ cache["stdio"] # NoCache

\* ------------------------------------------------------------ C4
\* a call of a registered tool whose arguments object lacks one of the required fields
MissesRequired(call) ==
  /\ IsToolCall(call) /\ call.name \in Registry
  /\ call.args.t = "object"
  /\ \E k \in Required(call.name.v[1]) : k \notin DOMAIN call.args.f

\* C4 (as claimed): a call that omits a required field is answered with an error and the
\* backend is never invoked for it.
C4_Original ==
  \A i \in Calls :
    MissesRequired(calls[i]) =>
      /\ calls[i].fetches = 0
      /\ (Done(i) => IsErrorOutcome(calls[i].resp))

\* ------------------------------------------------------------ C5
\* two calls of one tool whose arguments differ in a field of the backend request
DifferInRequestField(i, j) ==
  /\ IsToolCall(calls[i]) /\ IsToolCall(calls[j])
  /\ calls[i].name = calls[j].name /\ calls[i].name = ToolName("github_get_repository")
  /\ calls[i].args.t = "object" /\ calls[j].args.t = "object"
  /\ \E k \in {"owner", "repo"} : Prop(calls[i].args, k) # Prop(calls[j].args, k)

\* C5 (as claimed): calls whose arguments differ in a field of the backend request use
\* different cache keys, and none is answered from the entry the other stored.
C5_Original ==
  \A i \in Calls : \A j \in Calls :
    DifferInRequestField(i, j) =>
      /\ calls[i].key # calls[j].key
      /\ calls[i].servedBy # j

\* ------------------------------------------------------------ C6
\* call i's backend invocation failed: a non-2xx status or a transport fault
BackendFailed(call) == call.reply \in {"status", "fault"}

Returns(i) == i \in Calls /\ calls[i].pc = "fetching" /\ calls'[i].pc = "done"

C7_Original ==
  \A i \in Calls :
    Done(i) /\ BackendFailed(calls[i]) =>
      /\ calls[i].resp.httpStatus \in {0, 200}
      /\ calls[i].resp.envelope = "result"
      /\ calls[i].resp.isError
      /\ calls[i].resp.text # <<>>

\* ------------------------------------------------------------ C8
Conns == 1..Len(conns)

IsOpen(c) == conns[c].state = "open"

IsClosed(c) == conns[c].state = "closed"

\* the keepalive frames written to connection c
Pings(c) == Len(conns[c].frames) - 1

\* C8: in the step that closes a session its identifier leaves the live session set, and
\* from then on it stays out and no frame is written to its connection.
C8_ClosedIsSilent ==
  [][\A c \in Conns :
       /\ IsOpen(c) /\ conns'[c].state = "closed" => conns[c].sid \notin DOMAIN sessions'
       /\ IsClosed(c) =>
            /\ conns'[c].frames = conns[c].frames
            /\ conns[c].sid \notin DOMAIN sessions
            /\ conns[c].sid \notin DOMAIN sessions']_vars

\* a session closed before its first keepalive was due, a full interval ago
C8_Witness ==
  \E c \in Conns :
    /\ IsClosed(c)
    /\ conns[c].closedAt < conns[c].openedAt + KeepAliveMs
    /\ now >= conns[c].closedAt + KeepAliveMs

\* ------------------------------------------------------------ C9
\* C9: the live session set holds exactly the identifiers of the connections that were
\* opened and are not closed, each mapped to its own connection.
C9_LiveSessions ==
  /\ DOMAIN sessions = {conns[c].sid : c \in {x \in Conns : IsOpen(x)}}
  /\ \A c \in Conns : IsOpen(c) => sessions[conns[c].sid] = c

\* one session open and one closed, after a tool call was answered and a keepalive sent
C9_Witness ==
  /\ \E c \in Conns : IsOpen(c) /\ Pings(c) >= 1
  /\ \E c \in Conns : IsClosed(c)
  /\ \E i \in Calls : IsToolCall(calls[i]) /\ Done(i) /\ calls[i].fetches = 1

\* ------------------------------------------------------------ C10
\* C10: an open session is in the live set and its keepalive timer is armed for the end of
\* the current 30-second interval, one frame having been written per interval that has
\* ended; so a session open for 65 seconds has received at least two keepalive frames.
C10_KeepAlive ==
  \A c \in Conns :
    IsOpen(c) =>
      /\ conns[c].sid \in DOMAIN sessions
      /\ c \in DOMAIN timers
      /\ timers[c] = conns[c].openedAt + KeepAliveMs * (Pings(c) + 1)
      /\ now <= timers[c]
      /\ (now - conns[c].openedAt >= 65000 => Pings(c) >= 2)

\* a session open for 65 seconds or more
C10_Witness ==
  \E c \in Conns :
    /\ IsOpen(c)
    /\ now - conns[c].openedAt >= 65000
    /\ Pings(c) >= 2

\* ------------------------------------------------------------ C11
\* C11: the frames written to a streaming connection are one endpoint frame, written at
\* open, followed by keepalive frames only; nothing of a request or a response is among them.
C11_FrameSequence ==
  \A c \in Conns :
    /\ conns[c].frames # <<>>
    /\ conns[c].frames[1] = "endpoint"
    /\ \A k \in 2..Len(conns[c].frames) : conns[c].frames[k] = "ping"

\* a connection closed after its second keepalive, a tool call having been answered by then
C11_Witness ==
  /\ \E c \in Conns : IsClosed(c) /\ Pings(c) = 2
  /\ \E i \in Calls : IsToolCall(calls[i]) /\ Done(i) /\ calls[i].issuedAt > 0

\* ------------------------------------------------------------ C12
\* a step that receives a request or delivers the response of a suspended one
RequestStep == calls' # calls

\* C12: a step that receives or answers a request (initialize, tools/list, tools/call in the
\* JSON-RPC or the direct framing, an unknown method; whatever the outcome) leaves the live
\* session set, every keepalive timer and every streaming connection as they were; the
\* response is on the request's own record only.
C12_SynchronousOnly ==
  [][RequestStep =>
       /\ sessions' = sessions
       /\ timers' = timers
       /\ conns' = conns
       /\ \A i \in Calls : calls'[i] # calls[i] => Returns(i)]_vars

\* with two sessions open, one past its first keepalive, a call failed at the backend
C12_Witness ==
  /\ \E c \in Conns : \E d \in Conns : c # d /\ IsOpen(c) /\ IsOpen(d) /\ Pings(c) >= 1
  /\ \E i \in Calls : Done(i) /\ calls[i].reply = "status" /\ calls[i].issuedAt > 0

\* ------------------------------------------------------------ C13
\* a call is suspended at its fetch for the cacheKey `key`
InFlight(key) == \E j \in Calls : calls[j].pc = "fetching" /\ calls[j].key = key

\* C13: nothing serializes the calls of one fingerprint: a call that arrives while another
\* call with the same cacheKey is suspended at its fetch, and finds no fresh entry, invokes
\* the backend itself.
C13_NoSerialization ==
  [][Arrived =>
       LET call == calls'[Len(calls')]
           c == cache[Program(call.framing)]
       IN IsToolCall(call) /\ call.planned = "fetch" /\ InFlight(call.key)
          /\ ~(call.key \in DOMAIN c /\ now - c[call.key].timestamp < CACHE_DURATION)
          => call.pc = "fetching" /\ call.fetches = 1]_vars

\* two calls with one fingerprint, the second received before the first was answered, have
\* both invoked the backend and both stored its answer, at one instant
C13_Witness ==
  \E a \in Calls : \E b \in Calls :
    /\ a < b /\ SameRequest(a, b) /\ calls[a].key = calls[b].key
    /\ Done(a) /\ Done(b) /\ calls[a].doneSeq >= b
    /\ calls[a].fetches = 1 /\ calls[b].fetches = 1
    /\ calls[a].stored /\ calls[b].stored
    /\ calls[a].issuedAt = calls[b].issuedAt /\ calls[a].doneAt = calls[b].doneAt

\* ------------------------------------------------------------ C14
\* C14 (as claimed): an unknown tool name is answered with a method-not-found error in the
\* JSON-RPC framing, and with an error content block flagged as an error in the direct
\* framing and by the stdio handler.
C14_Original ==
  \A i \in Calls :
    Done(i) /\ IsToolCall(calls[i]) /\ calls[i].name \notin Registry =>
      IF calls[i].framing = "rpc"
      THEN calls[i].resp.envelope = "error" /\ calls[i].resp.code = MethodNotFound
      ELSE calls[i].resp.envelope = "result" /\ calls[i].resp.isError

\* ------------------------------------------------------------ C15
\* the methods handleJsonRpcRequest knows
Methods == {"initialize", "tools/list", "tools/call"}

\* C15: a JSON-RPC message of any other method is answered at once with the error
\* -32601 "Method not found" under its own id, also when its params name a tool: no tool is
\* resolved, the backend is not invoked, the cache and the session set stay as they were.
C15_MethodNotFound ==
  [][Arrived =>
       LET call == calls'[Len(calls')]
       IN call.framing = "rpc" /\ call.method \notin Methods =>
            /\ call.pc = "done"
            /\ call.resp.envelope = "error" /\ call.resp.code = MethodNotFound
            /\ call.resp.text = <<"Method not found">>
            /\ call.resp.httpStatus = 200
            /\ call.planned = "text" /\ call.fetches = 0 /\ ~call.hit
            /\ cache' = cache /\ writer' = writer
            /\ sessions' = sessions /\ timers' = timers]_vars

\* an unknown method whose params name a tool and its arguments, received while the cache
\* holds the entry of that very call and a session is open
C15_Witness ==
  \E i \in Calls :
    /\ calls[i].method \notin Methods /\ calls[i].name = ToolName("github_get_repository")
    /\ Done(i)
    /\ \E j \in Calls : j < i /\ calls[j].stored /\ calls[j].args = calls[i].args
    /\ \E c \in Conns : IsOpen(c)

\* ------------------------------------------------------------ C16
\* C16: initialize and list-tools (tools/list, GET /mcp/tools) are answered at once, without
\* a backend invocation and with the cache as it was; the result of initialize is the same
\* metadata and the result of list-tools the same names in declaration order, whatever
\* was received before.
C16_StaticAnswers ==
  [][Arrived =>
       LET call == calls'[Len(calls')]
       IN call.method \in {"initialize", "tools/list"} =>
            /\ call.pc = "done"
            /\ call.planned = "text" /\ call.fetches = 0 /\ ~call.hit
            /\ cache' = cache /\ writer' = writer
            /\ call.resp.envelope = "result" /\ ~call.resp.isError
            /\ call.resp.httpStatus = 200
            /\ call.resp.text = (IF call.method = "initialize" THEN InitializeText
                                 ELSE ToolNames)
            /\ \A j \in Calls :
                 Done(j) /\ calls[j].method = call.method
                 => calls[j].resp.text = call.resp.text]_vars

\* initialize received after a tool call whose response was stored in the cache
C16_Witness ==
  \E i \in Calls : \E j \in Calls :
    /\ j < i /\ calls[j].stored
    /\ calls[i].method = "initialize" /\ Done(i)
    /\ cache["http"] # NoCache

\* ------------------------------------------------------------ C17
\* a call of a registered tool that gives a declared field a value of another type than
\* declared, or a value outside the field's enum
HasWrongType(call) ==
  /\ IsToolCall(call) /\ call.name \in Registry
  /\ call.args.t = "object"
  /\ LET n == call.name.v[1]
     IN \E k \in DOMAIN call.args.f \cap DOMAIN Properties(n) :
          \/ call.args.f[k].t # Properties(n)[k]
          \/ k \in DOMAIN Enums(n) /\ call.args.f[k].v \notin Enums(n)[k]

\* C17 (as claimed): a call that gives a declared field a value of the wrong type or
\* outside its enum is answered with an error and the backend is never invoked for it.
C17_Original ==
  \A i \in Calls :
    HasWrongType(calls[i]) =>
      /\ calls[i].fetches = 0
      /\ (Done(i) => IsErrorOutcome(calls[i].resp))

\* ------------------------------------------------------------ C18
\* C18: every response to a JSON-RPC request, result or error, carries the id of that
\* request: for initialize, tools/list, a tool call that succeeds or fails, an unknown method
\* and the internal error of POST /sse, also when requests are answered out of order.
C18_CorrelationId ==
  \A i \in Calls :
    Done(i) /\ calls[i].framing = "rpc" =>
      /\ calls[i].resp.envelope \in {"result", "error"}
      /\ calls[i].resp.id = calls[i].id

\* two tool calls under different ids were in flight together; one failed at the backend,
\* the other succeeded
C18_Witness ==
  \E i \in Calls : \E j \in Calls :
    /\ i < j /\ calls[i].framing = "rpc" /\ calls[j].framing = "rpc"
    /\ calls[i].id # calls[j].id
    /\ Done(i) /\ Done(j) /\ calls[i].doneSeq >= j
    /\ calls[i].fetches = 1 /\ calls[j].fetches = 1
    /\ calls[i].resp.envelope = "error" /\ calls[j].resp.envelope = "result"

C20_FreshIff ==
  [][/\ Arrived =>
          LET call == calls'[Len(calls')]
              c == cache[Program(call.framing)]
          IN FindsEntry(call) =>
               /\ call.hit <=> EntryAge(call) < CACHE_DURATION
               /\ call.hit => /\ call.pc = "done" /\ call.fetches = 0
                               /\ call.data = c[call.key].data
               /\ ~call.hit => call.pc = "fetching" /\ call.fetches = 1
     /\ \A i \in 1..Len(calls') :
          calls'[i].hit =>
            /\ calls'[i].servedBy \in 1..Len(calls')
            /\ calls'[i].issuedAt - calls'[calls'[i].servedBy].doneAt < CACHE_DURATION]_vars

\* an entry stored at time 0 was found 60000 ms old by a second call, which invoked the
\* backend and stored anew; a third call, 59999 ms later, was answered from that
C20_Witness ==
  \E a \in Calls : \E b \in Calls : \E c \in Calls :
    /\ calls[a].stored /\ calls[a].doneSeq < b
    /\ calls[b].key = calls[a].key
    /\ calls[b].issuedAt - calls[a].doneAt = CACHE_DURATION
    /\ calls[b].fetches = 1 /\ calls[b].stored
    /\ calls[c].hit /\ calls[c].servedBy = b
    /\ calls[c].issuedAt - calls[b].doneAt = CACHE_DURATION - 1

\* ------------------------------------------------------------ C21
\* C21 (as claimed): within one server both framings list the same tool names, and a name
\* is answered as an unknown tool under one framing iff it is under the other.
C21_Original ==
  /\ \A i \in Calls : \A j \in Calls :
       calls[i].method = "tools/list" /\ calls[j].method = "tools/list"
       => calls[i].resp.text = calls[j].resp.text
  /\ \A i \in Calls : \A j \in Calls :
       /\ IsToolCall(calls[i]) /\ IsToolCall(calls[j]) /\ Done(i) /\ Done(j)
       /\ Program(calls[i].framing) = Program(calls[j].framing)
       /\ calls[i].name = calls[j].name
       => (IsUnknownTool(calls[i]) <=> IsUnknownTool(calls[j]))

\* the cache of the program that serves the call
CacheOf(call) == cache[Program(call.framing)]

\* what the handler makes of a payload for the call: the result text, or the error it throws
Formatted(call, data) == Format(call.framing, call.name, call.args, data)

\* C22: within one call-tool the steps are ordered: cache check, backend invocation (only
\* on a miss), cache write, response formatting, response sent; on a hit there is neither
\* a backend invocation nor a cache write, and the response is formatted from the entry.
C22_StepOrder ==
  [][/\ Arrived =>
          LET call == calls'[Len(calls')]
          IN IsToolCall(call) /\ call.planned = "fetch" =>
               /\ cache' = cache
               /\ call.hit <=> CacheHit(CacheOf(call), call.key, now)
               /\ call.hit =>
                    /\ call.fetches = 0 /\ call.pc = "done"
                    /\ call.resp = Envelope(call.framing, call.id,
                                            Formatted(call, CacheOf(call)[call.key].data))
               /\ ~call.hit =>
                    call.fetches = 1 /\ call.pc = "fetching" /\ call.resp = NoResponse
     /\ \A i \in Calls : Returns(i) =>
          LET call == calls'[i]
          IN /\ ~call.hit /\ call.fetches = 1 /\ calls[i].resp = NoResponse
             /\ call.resp # NoResponse
             /\ call.reply = "ok" =>
                  /\ call.key \in DOMAIN cache'[Program(call.framing)]
                  /\ cache'[Program(call.framing)][call.key]
                       = [data |-> call.data, timestamp |-> now]
                  /\ call.resp = Envelope(call.framing, call.id,
                                          Formatted(call, cache'[Program(call.framing)][call.key].data))
    ]_vars

\* a backend answer was stored although formatting it then failed: the write precedes the
\* formatting; and a later call was served from that entry without invoking the backend
C22_Witness ==
  \E i \in Calls : \E j \in Calls :
    /\ Done(i) /\ calls[i].reply = "ok" /\ ~Succeeded(i)
    /\ calls[i].key \in DOMAIN CacheOf(calls[i])
    /\ CacheOf(calls[i])[calls[i].key].data = calls[i].data
    /\ Done(j) /\ calls[j].hit /\ calls[j].servedBy = i /\ calls[j].fetches = 0

\* C23 (as claimed): every call whose backend invocation succeeded (and was cached) ends
\* in a success result.
C23_Original ==
  \A i \in Calls :
    IsToolCall(calls[i]) /\ Done(i) /\ calls[i].reply = "ok" => Succeeded(i)

\* C23 (amended): a call whose backend invocation succeeded ends in a success result
\* exactly when formatting the payload does not throw; otherwise it ends in the error the
\* handler threw while formatting, and the payload stays cached. A call whose backend
\* invocation failed ends in an error.
C23_FormattingErrors ==
  \A i \in Calls :
    IsToolCall(calls[i]) /\ Done(i) /\ calls[i].fetches = 1 =>
      LET call == calls[i]
          made == Formatted(call, call.data)
      IN /\ BackendFailed(call) => IsErrorOutcome(call.resp)
         /\ call.reply = "ok" =>
              /\ Succeeded(i) <=> made.kind = "text"
              /\ made.kind = "throw" =>
                   /\ IsErrorOutcome(call.resp)
                   /\ call.resp = Envelope(call.framing, call.id, made)
                   /\ call.key \in DOMAIN CacheOf(call)

\* the backend answered a github_get_file_content with contents that are not a file: the
\* payload is cached and the call ends in 'Path is not a file'
C23_Witness ==
  \E i \in Calls :
    /\ Done(i) /\ calls[i].reply = "ok" /\ calls[i].fetches = 1
    /\ calls[i].name = ToolName("github_get_file_content")
    /\ calls[i].resp.envelope = "error"
    /\ calls[i].resp.text = <<"Path is not a file">>
    /\ calls[i].key \in DOMAIN CacheOf(calls[i])
    /\ CacheOf(calls[i])[calls[i].key].data = Contents("symlink")

\* the call's backend request is a mutation: its HTTP method is not GET
Mutates(call) ==
  IsToolCall(call) /\ call.planned = "fetch"
  /\ Plan(call.framing, call.name, call.args).req.options.method # "GET"

\* C24 (as claimed): a second mutating call with identical arguments, issued less than
\* 60 s after the first succeeded, returns the first call's response and sends no POST.
C24_Original ==
  \A a \in Calls : \A b \in Calls :
    RepeatsWithinTtl(a, b) /\ Mutates(calls[a]) /\ Done(b) =>
      /\ calls[b].resp = calls[a].resp
      /\ calls[b].fetches = 0

\* C24 (amended): the cache is consulted whatever the HTTP method: such a repeat of a
\* mutating call sends no POST and is answered from the entry for its fingerprint, which
\* holds the response of an earlier POST: the first call's, unless a concurrent identical
\* call stored its response after the first call did.
C24_MutationCached ==
  \A a \in Calls : \A b \in Calls :
    RepeatsWithinTtl(a, b) /\ Mutates(calls[a]) =>
      /\ Done(b) /\ calls[b].hit /\ calls[b].fetches = 0
      /\ calls[b].servedBy \in Calls
      /\ Mutates(calls[calls[b].servedBy])
      /\ calls[calls[b].servedBy].fetches = 1
      /\ calls[b].resp = calls[calls[b].servedBy].resp
      /\ (\A c \in Calls : calls[c].key = calls[a].key /\ calls[c].fetches = 1
                              /\ calls[c].reply = "ok" => c = a)
           => calls[b].resp = calls[a].resp

\* github_create_issue answered with issue 1; the identical call, made after that, is
\* answered with issue 1 again, and one POST was sent for the two
C24_Witness ==
  \E a \in Calls : \E b \in Calls :
    /\ RepeatsWithinTtl(a, b) /\ Mutates(calls[a])
    /\ calls[a].name = ToolName("github_create_issue")
    /\ calls[a].data = Issue("1")
    /\ calls[b].resp = calls[a].resp
    /\ \A c \in Calls : calls[c].key = calls[a].key /\ calls[c].fetches = 1 => c = a

\* no entry other than the one for the call's own fingerprint changes in this step
OthersUntouched(call) ==
  \A k \in DOMAIN CacheOf(call) \ {call.key} :
    /\ k \in DOMAIN cache'[Program(call.framing)]
    /\ cache'[Program(call.framing)][k] = CacheOf(call)[k]

\* a listing l1 was fetched and cached, then the mutation m was issued and succeeded, then
\* the listing l2 was issued, less than the TTL after l1's response was stored
ListedMutatedListed(l1, m, l2) ==
  /\ RepeatsWithinTtl(l1, l2) /\ ~Mutates(calls[l1])
  /\ m \in Calls /\ Mutates(calls[m]) /\ Succeeded(m) /\ calls[m].fetches = 1
  /\ Prop(calls[m].args, "owner") = Prop(calls[l1].args, "owner")
  /\ Prop(calls[m].args, "repo") = Prop(calls[l1].args, "repo")
  /\ IssuedAfter(m, l1) /\ IssuedAfter(l2, m)

\* the listing issued again returns the first listing without invoking the backend
StillFirstListing ==
  \A l1 \in Calls : \A m \in Calls : \A l2 \in Calls :
    ListedMutatedListed(l1, m, l2) /\ Done(l2) =>
      calls[l2].fetches = 0 /\ calls[l2].resp = calls[l1].resp

\* the listing issued again is a hit on the entry a listing stored
StillCachedListing ==
  \A l1 \in Calls : \A m \in Calls : \A l2 \in Calls :
    ListedMutatedListed(l1, m, l2) =>
      /\ Done(l2) /\ calls[l2].hit /\ calls[l2].fetches = 0
      /\ calls[l2].servedBy \in Calls
      /\ SameRequest(calls[l2].servedBy, l1)
      /\ calls[l2].resp = calls[calls[l2].servedBy].resp
      /\ (\A c \in Calls : calls[c].key = calls[l1].key /\ calls[c].fetches = 1
                              /\ calls[c].reply = "ok" => c = l1)
           => calls[l2].resp = calls[l1].resp

\* C25 (as claimed): a successful mutating call changes no cache entry but its own, and
\* after a listing is cached and a mutation then succeeds, the listing issued again
\* within the TTL returns the first listing without invoking the backend.
C25_Original ==
  [][/\ \A i \in Calls :
          Returns(i) /\ Mutates(calls[i]) /\ calls'[i].reply = "ok" => OthersUntouched(calls[i])
     /\ StillFirstListing'
    ]_vars

\* C25 (amended): a successful mutating call changes no cache entry but its own; the
\* listing issued again is a cache hit, answered without the backend from the entry a
\* listing stored: the first listing's, unless a concurrent listing stored after it did.
C25_NoInvalidation ==
  [][/\ \A i \in Calls :
          Returns(i) /\ Mutates(calls[i]) /\ calls'[i].reply = "ok" => OthersUntouched(calls[i])
     /\ StillCachedListing'
    ]_vars

\* the listing was empty, issue 1 was then created, and the listing issued again still
\* says there are no issues
C25_Witness ==
  \E l1 \in Calls : \E m \in Calls : \E l2 \in Calls :
    /\ ListedMutatedListed(l1, m, l2)
    /\ calls[l1].name = ToolName("github_list_issues") /\ calls[l1].data = Arr(<<>>)
    /\ calls[m].name = ToolName("github_create_issue") /\ calls[m].data = Issue("1")
    /\ calls[l2].hit /\ calls[l2].data = Arr(<<>>) /\ calls[l2].resp = calls[l1].resp

\* C26: the set of cache keys never shrinks; a read that finds a stale entry leaves it in
\* place; an entry changes only by being overwritten by a later successful response for
\* the same key.
C26_KeysNeverShrink ==
  [][/\ \A p \in Programs :
          /\ DOMAIN cache[p] \subseteq DOMAIN cache'[p]
          /\ \A k \in DOMAIN cache'[p] :
               (k \notin DOMAIN cache[p] \/ cache'[p][k] # cache[p][k]) =>
                 \E i \in Calls :
                   /\ Returns(i) /\ calls'[i].reply = "ok"
                   /\ Program(calls[i].framing) = p /\ calls[i].key = k
                   /\ cache'[p][k] = [data |-> calls'[i].data, timestamp |-> now]
                   /\ k \in DOMAIN cache[p] => cache[p][k].timestamp <= now
     /\ Arrived =>
          LET call == calls'[Len(calls')]
          IN FindsEntry(call) /\ EntryAge(call) >= CACHE_DURATION => cache' = cache
    ]_vars

\* two entries, one expired and one stored after it; a call found the expired one, went
\* to the backend, and the expired entry is still there
C26_Witness ==
  \E k1 \in DOMAIN cache["http"] : \E k2 \in DOMAIN cache["http"] : \E b \in Calls :
    /\ k1 # k2
    /\ now - cache["http"][k1].timestamp >= CACHE_DURATION
    /\ cache["http"][k2].timestamp > cache["http"][k1].timestamp
    /\ calls[b].key = k1 /\ calls[b].pc = "fetching"
    /\ calls[b].issuedAt - cache["http"][k1].timestamp >= CACHE_DURATION

\* C27: the cache write is an unconditional overwrite: when a backend invocation succeeds,
\* the entry for the key becomes its payload with the time of completion (not the time
\* the call was issued), whatever entry was there.
C27_OverwriteAtCompletion ==
  [][\A i \in Calls :
       Returns(i) /\ calls'[i].reply = "ok" =>
         LET p == Program(calls[i].framing)
             k == calls[i].key
         IN /\ k \in DOMAIN cache'[p]
            /\ cache'[p][k].data = calls'[i].data
            /\ cache'[p][k].timestamp = now
            /\ calls'[i].doneAt = now /\ calls[i].issuedAt <= now
            /\ writer'[p][k] = i \/ cache'[p] = cache[p]
    ]_vars

\* call i was issued, a concurrent call j then stored another payload for the same key,
\* and i, completing later, replaced it: the entry holds i's payload and completion time
C27_Witness ==
  \E i \in Calls : \E j \in Calls :
    /\ Done(i) /\ Done(j) /\ calls[i].reply = "ok" /\ calls[j].reply = "ok"
    /\ calls[i].key = calls[j].key /\ calls[i].data # calls[j].data
    /\ calls[i].issuedAt < calls[j].doneAt /\ calls[j].doneAt < calls[i].doneAt
    /\ calls[i].doneAt - calls[j].doneAt < CACHE_DURATION
    /\ CacheOf(calls[i])[calls[i].key] = [data |-> calls[i].data, timestamp |-> calls[i].doneAt]

\* call i went to the backend because the entry for its key had expired
RefreshesStale(i) ==
  /\ calls[i].pc = "fetching"
  /\ calls[i].key \in DOMAIN CacheOf(calls[i])
  /\ calls[i].issuedAt - CacheOf(calls[i])[calls[i].key].timestamp >= CACHE_DURATION

\* C28: when a stale entry exists and the backend call that would refresh it fails, the
\* stale entry is left exactly as it was and the caller gets the error, never the stale
\* value.
C28_NoStaleFallback ==
  [][\A i \in Calls :
       RefreshesStale(i) /\ Returns(i) /\ BackendFailed(calls'[i]) =>
         LET call == calls'[i]
             stale == CacheOf(calls[i])[calls[i].key]
         IN /\ cache' = cache
            /\ cache'[Program(call.framing)][call.key] = stale
            /\ call.resp.envelope = "error"
            /\ call.data = Undefined
            /\ call.resp # Envelope(call.framing, call.id, Formatted(call, stale.data))
    ]_vars

\* an entry was stored; a call issued 60 s later went to the backend, which answered 404:
\* the call ended in that error and the entry is as it was stored
C28_Witness ==
  \E a \in Calls : \E b \in Calls :
    /\ Succeeded(a) /\ calls[a].stored /\ SameRequest(a, b)
    /\ calls[b].issuedAt - calls[a].doneAt >= CACHE_DURATION
    /\ Done(b) /\ calls[b].reply = "status"
    /\ calls[b].resp.envelope = "error"
    /\ calls[b].resp.text = ApiError([code |-> "404", text |-> "Not Found"])
    /\ CacheOf(calls[b])[calls[b].key] = [data |-> calls[a].data, timestamp |-> calls[a].doneAt]

\* C29: a cache hit is a pure read: it does not touch the entry, so there is no sliding
\* expiration and a value is served for less than 60 s after the backend response that
\* stored it, however many hits occur in between.
C29_PureRead ==
  [][Arrived =>
       LET call == calls'[Len(calls')]
       IN /\ call.hit =>
               /\ cache' = cache /\ writer' = writer
               /\ call.servedBy \in Calls
               /\ CacheOf(call)[call.key].timestamp = calls[call.servedBy].doneAt
               /\ calls[call.servedBy].fetches = 1
               /\ now - calls[call.servedBy].doneAt < CACHE_DURATION
          /\ \A a \in Calls :
               /\ calls[a].stored /\ calls[a].key = call.key
               /\ writer[Program(call.framing)][call.key] = a
               /\ now - calls[a].doneAt >= CACHE_DURATION
               => ~call.hit /\ call.fetches = 1
    ]_vars

\* a response stored at time 0 and served from the cache at 59999; the same request at
\* 119998, 59999 ms after that hit, goes to the backend
C29_Witness ==
  \E a \in Calls : \E b \in Calls : \E c \in Calls :
    /\ calls[a].stored /\ calls[a].doneAt = 0
    /\ calls[b].hit /\ calls[b].servedBy = a /\ calls[b].issuedAt = CACHE_DURATION - 1
    /\ calls[c].key = calls[a].key
    /\ calls[c].issuedAt - calls[b].issuedAt = CACHE_DURATION - 1
    /\ ~calls[c].hit /\ calls[c].fetches = 1

\* request i has received its response: a result or an error
Responded(i) ==
  /\ i \in Calls /\ Done(i)
  /\ calls[i].resp # NoResponse
  /\ calls[i].resp.envelope \in {"result", "error"}

\* C30: every request accepted eventually receives exactly one response, a result or an
\* error, provided every backend invocation eventually returns or fails; none is answered
\* twice or dropped, also when several calls are in flight.
C30_AnsweredOnce ==
  /\ \A i \in 1..MaxMixCalls : (i \in Calls) ~> Responded(i)
  /\ [][/\ Len(calls') >= Len(calls)
        /\ \A i \in Calls :
             /\ Done(i) => calls'[i] = calls[i]
             /\ ~Done(i) => calls[i].resp = NoResponse
             /\ calls'[i].resp # calls[i].resp => Returns(i)]_vars

\* two tool calls were in flight together on the two endpoints; the backend failed for
\* one and answered the other; each has its response, an error and a result
C30_Witness ==
  \E i \in Calls : \E j \in Calls :
    /\ i < j /\ calls[i].framing # calls[j].framing
    /\ calls[i].fetches = 1 /\ calls[j].fetches = 1
    /\ calls[i].doneSeq >= j
    /\ Responded(i) /\ Responded(j)
    /\ BackendFailed(calls[i]) /\ IsErrorOutcome(calls[i].resp)
    /\ Succeeded(j)

\* the backend invocations made for the first n requests
RECURSIVE Invocations(_)
Invocations(n) == IF n = 0 THEN 0 ELSE calls[n].fetches + Invocations(n - 1)

\* the backend invocations are at most the call-tool requests received
InvocationsWithinCalls ==
  Invocations(Len(calls)) <= Cardinality({i \in Calls : IsToolCall(calls[i])})

\* C31: no retries: each call-tool invokes the backend at most once, whatever the outcome:
\* when the backend answers or fails the call ends; the backend invocations in total are
\* at most the call-tool requests received.
C31_NoRetries ==
  [][/\ \A i \in Calls :
          /\ calls[i].fetches <= 1
          /\ calls'[i].fetches = calls[i].fetches
          /\ calls[i].pc = "fetching" /\ calls'[i] # calls[i] =>
               calls'[i].pc = "done" /\ calls'[i].resp # NoResponse
          /\ ~IsToolCall(calls[i]) => calls[i].fetches = 0
     /\ Arrived => calls'[Len(calls')].fetches <= 1
     /\ InvocationsWithinCalls'
    ]_vars

\* the backend was invoked for two calls and failed both times, with a status and with a
\* transport fault: both calls ended in the error after one invocation each
C31_Witness ==
  \E i \in Calls : \E j \in Calls :
    /\ Done(i) /\ calls[i].reply = "status" /\ calls[i].fetches = 1
    /\ Done(j) /\ calls[j].reply = "fault" /\ calls[j].fetches = 1
    /\ IsErrorOutcome(calls[i].resp) /\ IsErrorOutcome(calls[j].resp)
    /\ Invocations(Len(calls)) = 2

\* call i received entry e of key k from the backend: a successful response to exactly the
\* request the key identifies
ResponseOf(i, k, e) ==
  /\ Done(i) /\ calls[i].reply = "ok" /\ calls[i].fetches = 1
  /\ calls[i].key = k
  /\ CacheKey(Plan(calls[i].framing, calls[i].name, calls[i].args).req) = k
  /\ e.data = calls[i].data
  /\ e.timestamp = calls[i].doneAt

\* C32: under any interleaving, every cache entry is a complete (payload, storedAt) pair
\* whose payload is the body of a successful backend response to exactly the request its
\* key identifies; no entry holds a payload obtained for another key or of a failed call.
C32_EntriesAreResponses ==
  \A p \in Programs : \A k \in DOMAIN cache[p] :
    /\ DOMAIN cache[p][k] = {"data", "timestamp"}
    /\ cache[p][k].data # Undefined
    /\ cache[p][k].timestamp \in 0..now
    /\ \E i \in Calls : Program(calls[i].framing) = p /\ ResponseOf(i, k, cache[p][k])
    /\ \A j \in Calls :
         Done(j) /\ BackendFailed(calls[j]) => ~ResponseOf(j, k, cache[p][k])

\* three calls in flight together, two for one key and one for another; the backend
\* answered one of each key, with different payloads, and failed for the third: the two
\* entries hold the payloads of their keys
C32_Witness ==
  \E a \in Calls : \E b \in Calls : \E c \in Calls :
    /\ calls[a].key # calls[b].key /\ calls[c].key = calls[a].key /\ c # a
    /\ calls[a].doneSeq = 3 /\ calls[b].doneSeq = 3 /\ calls[c].doneSeq = 3
    /\ calls[a].fetches = 1 /\ calls[b].fetches = 1 /\ calls[c].fetches = 1
    /\ calls[a].data # calls[b].data
    /\ Done(c) /\ BackendFailed(calls[c])
    /\ ResponseOf(a, calls[a].key, cache["http"][calls[a].key])
    /\ ResponseOf(b, calls[b].key, cache["http"][calls[b].key])

\* calls i and j have the same fingerprint and both missed: each was issued before the
\* other was answered
BothMissed(i, j) ==
  /\ i # j /\ calls[i].key = calls[j].key
  /\ Program(calls[i].framing) = Program(calls[j].framing)
  /\ calls[i].fetches = 1 /\ calls[j].fetches = 1
  /\ Done(j) => calls[j].doneSeq >= i
  /\ Done(i) => calls[i].doneSeq >= j

\* C33: when two concurrent calls with the same fingerprint both miss, the response that
\* completes last determines the cached value and storedAt, even if its request was issued
\* first.
C33_LastCompletionWins ==
  [][\A i \in Calls : \A j \in Calls :
       /\ BothMissed(i, j)
       /\ Done(j) /\ calls[j].reply = "ok"
       /\ Returns(i) /\ calls'[i].reply = "ok"
       => /\ cache'[Program(calls[i].framing)][calls[i].key]
               = [data |-> calls'[i].data, timestamp |-> now]
          /\ CacheOf(calls[j])[calls[j].key].timestamp <= now
          /\ calls[j].doneAt <= now
    ]_vars

\* call i was issued before call j, both missed, the backend answered j first and i later
\* with another payload: the entry holds the answer to the older request under the newer
\* timestamp
C33_Witness ==
  \E i \in Calls : \E j \in Calls :
    /\ BothMissed(i, j) /\ Done(i) /\ Done(j)
    /\ i < j /\ calls[i].issuedAt < calls[j].issuedAt
    /\ calls[i].reply = "ok" /\ calls[j].reply = "ok"
    /\ calls[j].doneAt < calls[i].doneAt
    /\ calls[i].data # calls[j].data
    /\ CacheOf(calls[i])[calls[i].key].data = calls[i].data
    /\ CacheOf(calls[i])[calls[i].key].timestamp = calls[i].doneAt
    /\ writer[Program(calls[i].framing)][calls[i].key] = i

\* the connections with an active keepalive timer are those of the live sessions
TimersMatchSessions ==
  /\ DOMAIN timers = {sessions[sid] : sid \in DOMAIN sessions}
  /\ Cardinality(DOMAIN timers) = Cardinality(DOMAIN sessions)
  /\ \A c \in Conns : c \in DOMAIN timers <=> conns[c].sid \in DOMAIN sessions

\* C34: a keepalive timer is active for a session iff the session is in the live set:
\* opening a session starts exactly one timer, closing it cancels that timer, and the
\* active timers are as many as the live sessions after any opens and closes.
C34_TimerIffLive ==
  [][/\ TimersMatchSessions /\ TimersMatchSessions'
     /\ Len(conns') = Len(conns) + 1 =>
          /\ Len(conns') \notin DOMAIN timers
          /\ DOMAIN timers' = DOMAIN timers \cup {Len(conns')}
          /\ timers'[Len(conns')] = now + KeepAliveMs
     /\ \A c \in Conns :
          IsOpen(c) /\ conns'[c].state = "closed" => DOMAIN timers' = DOMAIN timers \ {c}
     /\ (Len(conns') = Len(conns) /\ \A c \in Conns : conns'[c].state = conns[c].state)
          => DOMAIN timers' = DOMAIN timers
    ]_vars

\* two sessions were opened, the first was closed after a keepalive: one timer is active,
\* that of the second session, the only live one
C34_Witness ==
  /\ Len(conns) = 2 /\ IsClosed(1) /\ IsOpen(2) /\ Pings(1) >= 1
  /\ conns[1].closedAt > conns[2].openedAt
  /\ DOMAIN timers = {2}
  /\ DOMAIN sessions = {conns[2].sid}

\* session d is as it was: in the live set, its timer armed for the same time, its frames
\* the same
SessionUntouched(d) ==
  /\ conns'[d] = conns[d]
  /\ conns[d].sid \in DOMAIN sessions <=> conns[d].sid \in DOMAIN sessions'
  /\ conns[d].sid \in DOMAIN sessions => sessions'[conns[d].sid] = sessions[conns[d].sid]
  /\ d \in DOMAIN timers <=> d \in DOMAIN timers'
  /\ d \in DOMAIN timers => timers'[d] = timers[d]

\* C35: closing one streaming session leaves every other session untouched: it stays in
\* the live set with its keepalive timer armed and goes on receiving keepalive frames;
\* opening a session changes no existing session.
C35_OthersUntouched ==
  [][/\ \A c \in Conns :
          IsOpen(c) /\ conns'[c].state = "closed" =>
            \A d \in Conns \ {c} :
              /\ SessionUntouched(d)
              /\ IsOpen(d) => /\ conns[d].sid \in DOMAIN sessions'
                               /\ d \in DOMAIN timers'
     /\ Len(conns') = Len(conns) + 1 => \A d \in Conns : SessionUntouched(d)
     /\ \A d \in Conns :
          Len(conns'[d].frames) > Len(conns[d].frames) =>
            /\ IsOpen(d) /\ timers[d] <= now
            /\ \A e \in Conns \ {d} : SessionUntouched(e)
    ]_vars

\* two sessions were open, the first was closed, and the second received a keepalive
\* frame after that
C35_Witness ==
  /\ Len(conns) = 2 /\ IsClosed(1) /\ IsOpen(2)
  /\ conns[2].openedAt <= conns[1].closedAt
  /\ Pings(2) >= 1
  /\ conns[2].openedAt + KeepAliveMs * Pings(2) > conns[1].closedAt
  /\ conns[2].sid \in DOMAIN sessions /\ 2 \in DOMAIN timers

\* C36: a JSON-RPC tools/call without params, or without arguments for a known tool, never
\* reaches the backend and never changes the cache: without params it is answered with an
\* internal error (-32603, HTTP 500) echoing the request id, without arguments with a
\* call-level error (-32000).
C36_AbsentParams ==
  [][Arrived =>
       LET call == calls'[Len(calls')]
       IN call.framing = "rpc" /\ call.method = "tools/call" =>
            /\ ~call.hasParams =>
                 /\ call.pc = "done" /\ call.fetches = 0 /\ ~call.hit
                 /\ call.resp.envelope = "error" /\ call.resp.code = -32603
                 /\ call.resp.httpStatus = 500
                 /\ call.resp.id = call.id
                 /\ cache' = cache /\ writer' = writer
            /\ call.hasParams /\ call.name \in Registry /\ call.args = Undefined =>
                 /\ call.pc = "done" /\ call.fetches = 0 /\ ~call.hit
                 /\ call.resp.envelope = "error" /\ call.resp.code = -32000
                 /\ call.resp.httpStatus = 200
                 /\ call.resp.id = call.id
                 /\ cache' = cache /\ writer' = writer
    ]_vars

\* a tools/call without params and one without arguments for github_get_repository, both
\* answered at once, the first with the internal error and the second with the call error
C36_Witness ==
  \E i \in Calls : \E j \in Calls :
    /\ calls[i].framing = "rpc" /\ calls[i].method = "tools/call" /\ ~calls[i].hasParams
    /\ Done(i) /\ calls[i].resp.code = -32603 /\ calls[i].resp.httpStatus = 500
    /\ calls[j].framing = "rpc" /\ calls[j].hasParams
    /\ calls[j].name = ToolName("github_get_repository") /\ calls[j].args = Undefined
    /\ Done(j) /\ calls[j].resp.code = -32000

\* calls i and j are the same tool call, i through the JSON-RPC framing and j through the
\* direct-call framing
SameCallBothFramings(i, j) ==
  /\ IsToolCall(calls[i]) /\ IsToolCall(calls[j])
  /\ calls[i].framing = "rpc" /\ calls[j].framing = "direct"
  /\ calls[i].name \in Registry
  /\ calls[i].name = calls[j].name /\ calls[i].args = calls[j].args

\* C37: for the five tools the direct-call framing and the JSON-RPC framing build the same
\* backend request (same cache key) and, given the same payload, return the same text; a
\* result cached by a call through one framing is a cache hit for the identical call
\* through the other.
C37_FramingsAgree ==
  \A i \in Calls : \A j \in Calls :
    SameCallBothFramings(i, j) =>
      /\ Plan("rpc", calls[i].name, calls[i].args) = Plan("direct", calls[j].name, calls[j].args)
      /\ calls[i].planned = "fetch" /\ calls[i].key = calls[j].key
      /\ Done(i) /\ Done(j) /\ calls[i].data = calls[j].data =>
           /\ calls[i].resp.text = calls[j].resp.text \/ ~Succeeded(i)
           /\ Succeeded(i) <=> Succeeded(j)
      /\ Succeeded(i) /\ calls[i].fetches = 1 /\ IssuedAfter(j, i) =>
           Done(j) /\ calls[j].hit /\ calls[j].fetches = 0
      /\ Succeeded(j) /\ calls[j].fetches = 1 /\ IssuedAfter(i, j) =>
           Done(i) /\ calls[i].hit /\ calls[i].fetches = 0

\* github_list_issues was answered by the backend through the JSON-RPC framing; the same
\* call through the direct framing was then served from the cache, with the same text
C37_Witness ==
  \E i \in Calls : \E j \in Calls :
    /\ SameCallBothFramings(i, j)
    /\ calls[i].name = ToolName("github_list_issues")
    /\ Succeeded(i) /\ calls[i].fetches = 1 /\ IssuedAfter(j, i)
    /\ calls[j].hit /\ calls[j].servedBy = i
    /\ calls[j].resp.text = calls[i].resp.text

\* calls i and j are github_create_or_update_file on one repository and differ in one of
\* path, message, content, branch
DifferInFileField(i, j) ==
  /\ IsToolCall(calls[i]) /\ IsToolCall(calls[j])
  /\ calls[i].framing = "xrpc" /\ calls[j].framing = "xrpc"
  /\ calls[i].name = ToolName("github_create_or_update_file")
  /\ calls[j].name = ToolName("github_create_or_update_file")
  /\ Prop(calls[i].args, "owner") = Prop(calls[j].args, "owner")
  /\ Prop(calls[i].args, "repo") = Prop(calls[j].args, "repo")
  /\ \E k \in {"path", "message", "content", "branch"} :
       Prop(calls[i].args, k) # Prop(calls[j].args, k)

\* C38 (as claimed): for github_create_or_update_file the request targets the contents
\* endpoint of the given path and its body carries message, content and branch, so two
\* calls on one repository that differ in one of these fields make different backend
\* requests under different cache keys.
C38_Original ==
  \A i \in Calls :
    IsToolCall(calls[i]) /\ calls[i].framing = "xrpc"
    /\ calls[i].name = ToolName("github_create_or_update_file") =>
      LET args == calls[i].args
          req == Plan(calls[i].framing, calls[i].name, args).req
      IN /\ req.url = baseURL \o Repo(Prop(args, "owner"), Prop(args, "repo"))
                        \o <<"/contents/">> \o ToStr(Prop(args, "path"))
         /\ req.options = DataOptions("PUT", <<"path", "message", "content", "branch">>,
                                      Pick(args, {"path", "message", "content", "branch"}))
         /\ \A j \in Calls :
              DifferInFileField(i, j) =>
                /\ req # Plan(calls[j].framing, calls[j].name, calls[j].args).req
                /\ calls[i].key # calls[j].key
                /\ ~(calls[j].hit /\ calls[j].servedBy = i)

====
